---- MODULE Spec2Model ----
(***************************************************************************)
(* State-machine model of the Indian Food Explorer front end: the Header   *)
(* suggestion engine (debounced autosuggest), the ListPage query           *)
(* controller (URL parameters, sort, overlapping fetches), the             *)
(* DishSuggester recommender widget and the DetailPage.                    *)
(*                                                                         *)
(* JavaScript strings that travel through the address (query text, filter  *)
(* values, page numbers) are sequences of one-character strings, so that   *)
(* Number(...) and String(...) are computed rather than assumed.           *)
(***************************************************************************)
EXTENDS Integers, Sequences, FiniteSets, TLC

\* ------------------------------------------------------------------ bounds
\* Header: runs of the [q, by] effect started by mounting, typing or choosing a
\* dimension (the run that follows a selection comes on top).
MaxEffects == 3
\* Clock steps that make up one debounce quiet period.
TicksPerDelay == 1

\* ListPage: list fetches issued in one run (all instances together).
MaxListFetches == 3
\* DishSuggester: requests issued in one run (ingredient loads and suggests).
MaxRecRequests == 3
\* DetailPage: dish fetches issued in one run.
MaxDetailFetches == 2
MaxInstances == 2

\* ------------------------------------------------------- program constants
\* setTimeout(doFetch, 250)
DebounceMs == 250
\* autosuggest(q, by, 20)
SuggestLimit == 20

\* The clock step, rounded up so that TicksPerDelay steps cover the delay.
\* Number(qparams.get("page") || 1)
DefaultPage == 1
\* Number(qparams.get("limit") || 10)
DefaultLimit == 10

TickMs == (DebounceMs + TicksPerDelay - 1) \div TicksPerDelay

\* -------------------------------------------------------------- JS values
EmptyStr == << >>
Str1(c) == << c >>
Str2(c, d) == << c, d >>

\* JavaScript truthiness of a string: only "" is falsy.
Truthy(s) == s # EmptyStr

\* A JavaScript number: an integer or NaN.
Num(n) == [nan |-> FALSE, v |-> n]
NaN == [nan |-> TRUE, v |-> 0]

DigitChars == << "0", "1", "2", "3", "4", "5", "6", "7", "8", "9" >>
IsDigit(c) == \E d \in 1..10 : DigitChars[d] = c
DigitVal(c) == (CHOOSE d \in 1..10 : DigitChars[d] = c) - 1
AllDigits(s) == Len(s) > 0 /\ \A k \in 1..Len(s) : IsDigit(s[k])

RECURSIVE DecimalValue(_, _)
DecimalValue(s, acc) ==
    IF s = << >> THEN acc ELSE DecimalValue(Tail(s), 10 * acc + DigitVal(Head(s)))

\* Number(s) for strings over digits, "-" and letters: "" is 0, a decimal
\* numeral (with an optional leading "-") is its value, anything else is NaN.
ToNumber(s) ==
    IF s = << >> THEN Num(0)
    ELSE IF AllDigits(s) THEN Num(DecimalValue(s, 0))
    ELSE IF Head(s) = "-" /\ AllDigits(Tail(s)) THEN Num(0 - DecimalValue(Tail(s), 0))
    ELSE NaN

RECURSIVE DecimalString(_)
DecimalString(n) ==
    IF n < 10 THEN << DigitChars[n + 1] >>
    ELSE DecimalString(n \div 10) \o << DigitChars[(n % 10) + 1] >>

\* String(n) for a number.
NumToString(n) ==
    IF n.nan THEN << "N", "a", "N" >>
    ELSE IF n.v < 0 THEN << "-" >> \o DecimalString(0 - n.v)
    ELSE DecimalString(n.v)

\* Math.max(1, n) and n + k on numbers: NaN is contagious.
MathMax1(n) == IF n.nan THEN NaN ELSE IF n.v < 1 THEN Num(1) ELSE n
NumPlus(n, k) == IF n.nan THEN NaN ELSE Num(n.v + k)

\* JavaScript values handed to updateParam and formatValue: a string, a number, null or
\* undefined.
JsStr(text) == [type |-> "string", text |-> text, num |-> NaN]
JsNum(n) == [type |-> "number", text |-> EmptyStr, num |-> n]
JsNull == [type |-> "null", text |-> EmptyStr, num |-> NaN]
JsUndefined == [type |-> "undefined", text |-> EmptyStr, num |-> NaN]

\* String(value)
JsToString(value) ==
    CASE value.type = "string" -> value.text
      [] value.type = "number" -> NumToString(value.num)
      [] value.type = "null" -> << "n", "u", "l", "l" >>
      [] OTHER -> << "u", "n", "d", "e", "f", "i", "n", "e", "d" >>

\* The search dimensions of the Header dropdown.
Dimensions == {"name", "ingredient", "origin", "state"}

\* Query texts the user types.
Texts == {EmptyStr, Str1("a"), Str2("a", "b")}

\* Dimensions the user picks in the dropdown.
ByInputs == {"name", "origin"}

\* Dish identifiers the backend hands out.
DishIds == {<< "d", " ", "1" >>}

\* encodeURIComponent on identifiers: letters and digits are kept, a blank
\* becomes "%20".
RECURSIVE EncodeURIComponent(_)
EncodeURIComponent(s) ==
    IF s = << >> THEN << >>
    ELSE (IF Head(s) = " " THEN << "%", "2", "0" >> ELSE << Head(s) >>)
         \o EncodeURIComponent(Tail(s))

\* ------------------------------------------------------ autosuggest service
\* A suggestion is either a plain string or an object {id, name}; q and by
\* record the request the backend answered with it.
StringItem(qq, b) == [kind |-> "string", text |-> qq, id |-> EmptyStr, q |-> qq, by |-> b]
ObjectItem(qq, b, i) == [kind |-> "object", text |-> qq, id |-> i, q |-> qq, by |-> b]

\* The bodies GET /dishes/autosuggest?q&by&limit can answer with: data
\* missing, an empty list, a list of strings, a list of objects.
SuggestResponses(qq, b) ==
    {[hasData |-> FALSE, data |-> << >>],
     [hasData |-> TRUE, data |-> << >>],
     [hasData |-> TRUE, data |-> << StringItem(qq, b) >>]}
    \cup {[hasData |-> TRUE, data |-> << ObjectItem(qq, b, i) >>] : i \in DishIds}

\* r.data || []
DataOrEmpty(r) == IF r.hasData THEN r.data ELSE << >>

\* ------------------------------------------------------------------- state
VARIABLES
    lsLogin,        \* localStorage "login": "null", "true" or "false"
    lsUser,         \* localStorage "user": NoUser or the stored {email}
    lsUsers,        \* localStorage "users": the stored {email, password} entries
    authError,      \* Login: the error state of the page on screen
    authEvent,      \* Login: the submit handler the last step ran, if any
    ssSearchBy,     \* sessionStorage "searchBy": "null" or a dimension
    location,       \* browser location: [path, search]
    lateSets,       \* components one of whose state setters was called by a fetch
                    \* continuation after the issuing instance was unmounted
    headerMounted,  \* the Header instance is mounted
    q,              \* Header: query text
    by,             \* Header: search dimension
    suggests,       \* Header: SuggestionSet
    menuOpen,       \* Header: panel open
    effects,        \* Header: the runs of the [q, by] effect, oldest first
    lastSettled,    \* Header: the run whose request settled most recently (0: none)
    headerEvent,    \* Header: the pointer handler the last Header step ran, if any
    listMounted,    \* a ListPage instance is mounted
    listInst,       \* ListPage: number of the newest instance
    dishes,         \* ListPage: rows of the ResultPage
    total,          \* ListPage: total of the ResultPage
    loading,        \* ListPage: loading flag
    sortBy,         \* ListPage: sort column
    sortOrder,      \* ListPage: sort direction
    listReqs,       \* ListPage: the pending fetchDishes calls, oldest first
    listIssued,     \* ListPage: number of fetchDishes calls issued so far
    listLast,       \* ListPage: the request that settled most recently and its body
    recMounted,     \* a DishSuggester instance is mounted
    recInst,        \* DishSuggester: number of the newest instance
    options,        \* DishSuggester: ingredient candidates
    selected,       \* DishSuggester: selected ingredients
    search,         \* DishSuggester: search-within-ingredients text
    results,        \* DishSuggester: suggested dishes
    matchType,      \* DishSuggester: "all" or "some"
    recReqs,        \* DishSuggester: the pending service calls, oldest first
    recIssued,      \* DishSuggester: number of service calls issued so far
    recLast,        \* DishSuggester: the suggestDishes call that settled most recently
    recEvent,       \* DishSuggester: the click handler the last step of the widget ran
    detailMounted,  \* a DetailPage instance is mounted
    detailInst,     \* DetailPage: number of the newest instance
    detailId,       \* DetailPage: useParams().id
    dish,           \* DetailPage: the dish shown, or NoDish
    detailReqs,     \* DetailPage: the pending fetchDishById calls, oldest first
    detailIssued    \* DetailPage: number of fetchDishById calls issued so far

storeVars == << lsLogin, ssSearchBy >>
authVars == << lsUser, lsUsers, authError, authEvent >>
headerVars == << headerMounted, q, by, suggests, menuOpen, effects, lastSettled,
                headerEvent >>
listVars == << listMounted, listInst, dishes, total, loading, sortBy, sortOrder, listReqs,
              listIssued, listLast >>
recVars == << recMounted, recInst, options, selected, search, results, matchType, recReqs,
             recIssued, recLast, recEvent >>
detailVars == << detailMounted, detailInst, detailId, dish, detailReqs, detailIssued >>
pageVars == << listVars, recVars, detailVars >>
vars == << storeVars, authVars, location, lateSets, headerVars, pageVars >>

\* ------------------------------------------------------- credential store
\* Emails and passwords typed into the login form.
EmailA == << "a", "@", "x", ".", "c", "o", "m" >>
EmailB == << "b", "@", "x", ".", "c", "o", "m" >>
Emails == {EmailA, EmailB}
Passwords == {Str1("p"), Str1("q"), Str1(" ")}

\* An entry of "users", and the value JSON.stringify({ email }) stores as
\* "user".
UserEntry(email, password) == [email |-> email, password |-> password]
JsonUser(email) == [email |-> email]
NoUser == [email |-> << "n", "u", "l", "l" >>]

\* Values of "user" that no handler of the program writes, as a browser may
\* hold them from elsewhere: a text that is not JSON, JSON that is not an
\* object, and an object whose email is itself an object.
MalformedUser == [raw |-> << "{" >>]
NumberUser == [number |-> 5]
ObjectEmailUser == [emailKeys |-> << "x" >>]
StoredUsers == {NoUser, MalformedUser, NumberUser, ObjectEmailUser}
               \cup {JsonUser(email) : email \in Emails}

\* A JavaScript object, as React finds it among the children of an element.
JsObject == [type |-> "object", text |-> EmptyStr, num |-> NaN]

\* JSON.parse(localStorage.getItem("user")) throws a SyntaxError.
JsonParseThrows(stored) == "raw" \in DOMAIN stored

\* user?.email of the parsed value: undefined for null (no stored value)
\* and for a value without that property.
UserEmail(stored) ==
    IF stored = NoUser THEN JsUndefined
    ELSE IF "email" \in DOMAIN stored THEN JsStr(stored.email)
    ELSE IF "emailKeys" \in DOMAIN stored THEN JsObject
    ELSE JsUndefined

\* getName(): the element <span>Welcome {user?.email}</span>, or
\* <span>Welcome User</span> from the catch when JSON.parse threw.
GetName(stored) ==
    IF JsonParseThrows(stored)
    THEN [text |-> "Welcome User", child |-> JsUndefined]
    ELSE [text |-> "Welcome ", child |-> UserEmail(stored)]

\* React renders a string or a number child as text and undefined or null as
\* nothing; an object child makes the render throw ("Objects are not valid
\* as a React child").
ReactChildThrows(child) == child.type = "object"

\* ListPage's render of {getName()} throws: without an error boundary React
\* unmounts the tree and the page never comes on screen.
ListPageRenderThrows == ReactChildThrows(GetName(lsUser).child)

\* The error state of the Login page: null or a message.
NoError == "null"
InvalidCredentials == "Invalid credentials"
\* The message of the Register page.
EmailAlreadyRegistered == "Email already registered"

\* The submit handlers, as recorded for the last step: handleLogin with the
\* email and password it was called with, logout, or none.
NoAuthEvent == [name |-> "none"]
LoginEvent(email, password) == [name |-> "handleLogin", email |-> email, password |-> password]
LogoutEvent == [name |-> "logout"]
RegisterEvent(email, password) ==
    [name |-> "handleRegister", email |-> email, password |-> password]
\* An address opened by the user, as recorded for the last step.
OpenEvent(path) == [name |-> "open", path |-> path]

\* String.prototype.trim on texts with blanks.
RECURSIVE TrimStart(_)
TrimStart(s) == IF s # << >> /\ Head(s) = " " THEN TrimStart(Tail(s)) ELSE s
RECURSIVE TrimEnd(_)
TrimEnd(s) ==
    IF s # << >> /\ s[Len(s)] = " " THEN TrimEnd(SubSeq(s, 1, Len(s) - 1)) ELSE s
Trim(s) == TrimEnd(TrimStart(s))

\* ---------------------------------------------------------------- location
NoSearch == [k \in {} |-> EmptyStr]
SearchSet(s, key, value) == [k \in DOMAIN s \cup {key} |-> IF k = key THEN value ELSE s[k]]
SearchDelete(s, key) == [k \in DOMAIN s \ {key} |-> s[k]]
\* URLSearchParams.get: null is rendered as the empty string by every caller
\* (qparams.get(k) || default).
SearchHas(s, key) == key \in DOMAIN s

ListPath == << "dishes" >>
RootPath == << >>
LoginPath == << "login" >>
RegisterPath == << "register" >>
DetailPath(id) == << "dishes", EncodeURIComponent(id) >>


\* decodeURIComponent, the inverse of EncodeURIComponent (useParams decodes).
RECURSIVE DecodeURIComponent(_)
DecodeURIComponent(s) ==
    IF s = << >> THEN << >>
    ELSE IF Len(s) >= 3 /\ s[1] = "%" /\ s[2] = "2" /\ s[3] = "0"
         THEN << " " >> \o DecodeURIComponent(SubSeq(s, 4, Len(s)))
         ELSE << Head(s) >> \o DecodeURIComponent(Tail(s))

\* ------------------------------------------------------------ dish service
\* Rows carry the dish id and the number of the request that returned them,
\* so that a ResultPage identifies the fetch it came from.
ListRow(d, i) == [id |-> d, req |-> i]

\* A row of GET /dishes also carries the fields the table formats; of these
\* the model keeps prep_time (number | string): the sentinel -1 as a number,
\* or a number of minutes.
PrepTimes == {JsNum(Num(0 - 1)), JsNum(Num(45))}
DishRow(d, i, p) == [id |-> d, req |-> i, prep_time |-> p]

\* The bodies GET /dishes can answer request i with: a page of rows with its
\* total, or a body without data and meta.
ListBodies(i) ==
    {[hasData |-> TRUE, data |-> << DishRow(d, i, p) >>, hasMeta |-> TRUE, total |-> i] :
        d \in DishIds, p \in PrepTimes}
    \cup {[hasData |-> FALSE, data |-> << >>, hasMeta |-> FALSE, total |-> 0]}
NoBody == [hasData |-> FALSE, data |-> << >>, hasMeta |-> FALSE, total |-> 0]

NoneSettled ==
    [id |-> 0, inst |-> 0, params |-> << >>, ok |-> FALSE, body |-> NoBody]

\* res.meta?.total || 0
TotalOrZero(r) == IF r.hasMeta THEN r.total ELSE 0

\* ---------------------------------------------------------------- ListPage
\* qparams.get(key) || ""
GetStr(srch, key) == IF key \in DOMAIN srch THEN srch[key] ELSE EmptyStr
\* Number(qparams.get(key) || dflt)
GetNum(srch, key, dflt) ==
    IF key \in DOMAIN srch /\ Truthy(srch[key]) THEN ToNumber(srch[key]) ELSE Num(dflt)

\* The parameter set handed to fetchDishes: five values derived from the
\* address and the two sort values of the component state.
QueryParams(srch, sb, so) ==
    [page |-> GetNum(srch, "page", DefaultPage),
     limit |-> GetNum(srch, "limit", DefaultLimit),
     origin |-> GetStr(srch, "origin"),
     ingredient |-> GetStr(srch, "ingredient"),
     q |-> GetStr(srch, "q"),
     sortBy |-> sb,
     sortOrder |-> so]

\* Variant of the dependency comparison that leaves sortOrder out of the
\* dependency array.
EffectDepsChangedNoSortOrder(old, new) ==
    [old EXCEPT !.sortOrder = "asc"] # [new EXCEPT !.sortOrder = "asc"]

\* The dependency array [page, limit, origin, ingredient, q, sortBy, sortOrder]:
\* the effect re-runs when one of the values differs from the last render.
EffectDepsChanged(old, new) == old # new

\* A pending fetchDishes call: its number in issue order, the instance that
\* issued it and the parameter set it carries.
NewListReq(id, inst, params) == [id |-> id, inst |-> inst, params |-> params]

\* The sequence xs without its k-th element.
RemoveAt(xs, k) == SubSeq(xs, 1, k - 1) \o SubSeq(xs, k + 1, Len(xs))

\* A render of the mounted ListPage with a new address or sort state: when a
\* dependency changed, load() runs: setLoading(true) and one fetchDishes call.
ListRender(srch, sb, so) ==
    LET old == QueryParams(location.search, sortBy, sortOrder)
        new == QueryParams(srch, sb, so)
    IN /\ sortBy' = sb
       /\ sortOrder' = so
       /\ listReqs' = IF EffectDepsChanged(old, new)
                      THEN Append(listReqs, NewListReq(listIssued + 1, listInst, new))
                      ELSE listReqs
       /\ listIssued' = IF EffectDepsChanged(old, new) THEN listIssued + 1 ELSE listIssued
       /\ loading' = IF EffectDepsChanged(old, new) THEN TRUE ELSE loading
       /\ UNCHANGED << listMounted, listInst, dishes, total, listLast >>

\* A new ListPage instance: initial state, then the first run of the effect.
MountList(srch) ==
    /\ listMounted' = TRUE
    /\ listInst' = listInst + 1
    /\ dishes' = << >>
    /\ total' = 0
    /\ loading' = TRUE
    /\ sortBy' = "name"
    /\ sortOrder' = "asc"
    /\ listReqs' = Append(listReqs, NewListReq(listIssued + 1, listInst + 1,
                                               QueryParams(srch, "name", "asc")))
    /\ listIssued' = listIssued + 1
    /\ UNCHANGED listLast

UnmountList ==
    /\ listMounted' = FALSE
    /\ UNCHANGED << listInst, dishes, total, loading, sortBy, sortOrder, listReqs, listIssued,
                    listLast >>

\* ------------------------------------------------------------ DishSuggester
Rice == << "r", "i", "c", "e" >>
Lentil == << "l", "e", "n", "t", "i", "l" >>

\* The click handlers of the widget, as recorded for the last step: clearAll,
\* or none of them.
NoRecEvent == "none"
ClearAllEvent == "clearAll"

\* A pending getAllIngredients ("load") or suggestDishes ("suggest") call.
NewRecReq(id, inst, kind, ingredients, match) ==
    [id |-> id, inst |-> inst, kind |-> kind, ingredients |-> ingredients, match |-> match]

\* A new DishSuggester instance: initial state, then the mount effect calls
\* getAllIngredients().
MountRec ==
    /\ recMounted' = TRUE
    /\ recInst' = recInst + 1
    /\ options' = << >>
    /\ selected' = << >>
    /\ search' = EmptyStr
    /\ results' = << >>
    /\ matchType' = "all"
    /\ recReqs' = Append(recReqs, NewRecReq(recIssued + 1, recInst + 1, "load", << >>, "all"))
    /\ recIssued' = recIssued + 1
    /\ recEvent' = NoRecEvent
    /\ UNCHANGED recLast

UnmountRec ==
    /\ recMounted' = FALSE
    /\ UNCHANGED << recInst, options, selected, search, results, matchType, recReqs,
                    recIssued, recLast, recEvent >>

\* --------------------------------------------------------------- DetailPage
NoDish == [present |-> FALSE, id |-> EmptyStr, req |-> 0]
DishOf(id, i) == [present |-> TRUE, id |-> id, req |-> i]

\* A pending fetchDishById call.
NewDetailReq(id, inst, dishId) == [id |-> id, inst |-> inst, dishId |-> dishId]

\* A new DetailPage instance: dish is null, the effect calls fetchDishById(id).
MountDetail(id) ==
    /\ detailMounted' = TRUE
    /\ detailInst' = detailInst + 1
    /\ detailId' = id
    /\ dish' = NoDish
    /\ detailReqs' = IF Truthy(id)
                     THEN Append(detailReqs, NewDetailReq(detailIssued + 1, detailInst + 1, id))
                     ELSE detailReqs
    /\ detailIssued' = IF Truthy(id) THEN detailIssued + 1 ELSE detailIssued

\* A render of the mounted DetailPage with another route id: the [id] effect
\* runs again and fetches; the dish state is kept.
DetailRender(id) ==
    /\ detailId' = id
    /\ detailReqs' = IF id # detailId /\ Truthy(id)
                     THEN Append(detailReqs, NewDetailReq(detailIssued + 1, detailInst, id))
                     ELSE detailReqs
    /\ detailIssued' = IF id # detailId /\ Truthy(id) THEN detailIssued + 1 ELSE detailIssued
    /\ UNCHANGED << detailMounted, detailInst, dish >>

UnmountDetail ==
    /\ detailMounted' = FALSE
    /\ UNCHANGED << detailInst, detailId, dish, detailReqs, detailIssued >>

\* ------------------------------------------------------------------ routing
\* The paths of the routes behind ProtectedRoute.
IsProtectedPath(path) == path = ListPath \/ (Len(path) = 2 /\ path[1] = "dishes")

\* Variant of ProtectedRoute that only turns away a session whose marker is
\* "false".
ProtectedRouteOpenUnlessFalse ==
    IF listMounted \/ detailMounted THEN TRUE ELSE lsLogin # "false"

\* ProtectedRoute renders its child routes while the isLoggedIn state of its
\* useAuth() is true. That state reads the marker once, when the instance is
\* mounted, and nothing calls its setter: an instance that has a page on
\* screen found the marker "true" and keeps rendering; a new instance reads
\* the marker.
ProtectedRouteOpen == IF listMounted \/ detailMounted THEN TRUE ELSE lsLogin = "true"

\* <Navigate to="/login" replace />: the address a closed ProtectedRoute
\* leaves the browser at.
Redirected(loc, open) ==
    IF IsProtectedPath(loc.path) /\ ~open
    THEN [path |-> LoginPath, search |-> NoSearch]
    ELSE loc

\* <Routes>: /dishes is the ListPage, /dishes/:id the DetailPage (both behind
\* ProtectedRoute), every other path a public page. open: the ProtectedRoute
\* instance that renders for the location finds the session logged in.
RouteTargetFor(loc, open) ==
    IF ~open THEN "public"
    ELSE IF loc.path = ListPath THEN "list"
    ELSE IF Len(loc.path) = 2 /\ loc.path[1] = "dishes" THEN "detail"
    ELSE "public"

RouteTarget(loc) == RouteTargetFor(loc, ProtectedRouteOpen)

\* What the router renders for a new location: pages stay mounted when their
\* route still matches, and are unmounted and mounted otherwise.
RouteFor(loc, open) ==
    CASE RouteTargetFor(loc, open) = "list" ->
            /\ IF listMounted
               THEN ListRender(loc.search, sortBy, sortOrder) /\ UNCHANGED recVars
               ELSE IF ListPageRenderThrows
               THEN UnmountList /\ UnmountRec
               ELSE MountList(loc.search) /\ MountRec
            /\ UnmountDetail
      [] RouteTargetFor(loc, open) = "detail" ->
            /\ UnmountList
            /\ UnmountRec
            /\ IF detailMounted
               THEN DetailRender(DecodeURIComponent(loc.path[2]))
               ELSE MountDetail(DecodeURIComponent(loc.path[2]))
      [] OTHER ->
            UnmountList /\ UnmountRec /\ UnmountDetail

Route(loc) == RouteFor(loc, ProtectedRouteOpen)

\* The requests a navigation may issue stay within the bounds of the model.
RouteAllowedFor(loc, open) ==
    CASE RouteTargetFor(loc, open) = "list" ->
            /\ listIssued < MaxListFetches
            /\ listMounted \/ (listInst < MaxInstances /\ recIssued < MaxRecRequests)
      [] RouteTargetFor(loc, open) = "detail" ->
            /\ detailIssued < MaxDetailFetches
            /\ detailMounted \/ detailInst < MaxInstances
      [] OTHER -> TRUE

RouteAllowed(loc) == RouteAllowedFor(loc, ProtectedRouteOpen)

\* navigate(to) after the handler has written the session marker: the router
\* renders the new location, ProtectedRoute reading the marker as written.
NavigateFor(loc, open) ==
    /\ RouteAllowedFor(loc, open)
    /\ location' = Redirected(loc, open)
    /\ RouteFor(loc, open)

\* navigate(to) and setSearchParams(next): the router renders the new location.
Navigate(loc) == NavigateFor(loc, ProtectedRouteOpen)

\* Locations reached with the browser's own controls (back and forward, which
\* is also what the Back buttons' navigate(-1) does).
ListLocations ==
    {[path |-> ListPath, search |-> srch] :
        srch \in {NoSearch,
                  SearchSet(SearchSet(SearchSet(NoSearch, "ingredient", Str1("a")),
                                      "q", Str1("a")),
                            "page", Str1("2"))}}

NavLocations ==
    {[path |-> ListPath, search |-> NoSearch]}
    \cup {[path |-> DetailPath(d), search |-> NoSearch] : d \in DishIds}

\* Navigation of the address from outside the page's controls.
ExternalNavigate(loc) ==
    /\ loc # location
    /\ RouteAllowed(loc)
    /\ location' = Redirected(loc, ProtectedRouteOpen)
    /\ Route(loc)
    /\ UNCHANGED << storeVars, authVars, lateSets, headerVars >>

\* ------------------------------------------------------------------ Header
\* checkLog(): the search box is rendered only for a logged-in session.
checkLog == lsLogin = "true"

\* The pointer handlers of the Header, as recorded for the last step:
\* handleSelect with the suggestion clicked and the dimension at that moment,
\* handleClickOutside, or none of them.
NoEvent == [name |-> "none"]
ClickOutsideEvent == [name |-> "handleClickOutside"]
SelectEvent(s, b) == [name |-> "handleSelect", item |-> s, by |-> b]

\* One run of the effect: the closure's q and by, its mounted flag, its timer
\* and the autosuggest request it issued.
NewEffect(qq, b) ==
    [q |-> qq, by |-> b, mounted |-> TRUE, timer |-> "pending", elapsed |-> 0,
     req |-> "none"]

\* Variant of Cleanup that forgets clearTimeout(t): the old timer stays armed.
CleanupKeepsTimer(e) ==
    [e EXCEPT !.mounted = FALSE]

\* The cleanup the effect returns: mounted = false; clearTimeout(t).
Cleanup(e) ==
    [e EXCEPT !.mounted = FALSE,
              !.timer = IF e.timer = "pending" THEN "cleared" ELSE e.timer]

\* React re-runs the effect when q or by changed: cleanup of the previous run,
\* then a new run with a fresh timer.
RerunEffect(es, qq, b) ==
    [i \in 1..(Len(es) + 1) |->
        IF i <= Len(es) THEN Cleanup(es[i]) ELSE NewEffect(qq, b)]

\* useState initialiser of by: sessionStorage.getItem("searchBy") || "name".
InitialBy(stored) == IF stored = "null" THEN "name" ELSE stored

\* onChange of the search input: setQ(e.target.value).
SetQ(text) ==
    /\ headerMounted /\ checkLog
    /\ text # q
    /\ Len(effects) < MaxEffects
    /\ q' = text
    /\ effects' = RerunEffect(effects, text, by)
    /\ UNCHANGED << lsLogin, ssSearchBy, location, headerMounted, by, suggests, menuOpen, lastSettled >>
    /\ UNCHANGED << authVars, location, lateSets, pageVars >>
    /\ headerEvent' = NoEvent

\* onOptionSelect of the dimension dropdown: setBy(value) and
\* sessionStorage.setItem("searchBy", value).
SetBy(value) ==
    /\ headerMounted /\ checkLog
    /\ Len(effects) < MaxEffects
    /\ by' = value
    /\ ssSearchBy' = value
    /\ effects' = IF value # by THEN RerunEffect(effects, q, value) ELSE effects
    /\ UNCHANGED << lsLogin, location, headerMounted, q, suggests, menuOpen, lastSettled >>
    /\ UNCHANGED << authVars, location, lateSets, pageVars >>
    /\ headerEvent' = NoEvent

\* Time passes: every pending timer ages; a timer that is due fires first.
TimerDue(e) == e.timer = "pending" /\ e.elapsed >= DebounceMs
Tick ==
    /\ \E i \in 1..Len(effects) : effects[i].timer = "pending"
    /\ \A i \in 1..Len(effects) : ~TimerDue(effects[i])
    /\ effects' = [i \in 1..Len(effects) |->
                     IF effects[i].timer = "pending"
                     THEN [effects[i] EXCEPT !.elapsed =
                             IF @ + TickMs > DebounceMs THEN DebounceMs ELSE @ + TickMs]
                     ELSE effects[i]]
    /\ UNCHANGED << lsLogin, ssSearchBy, location, headerMounted, q, by, suggests, menuOpen, lastSettled >>
    /\ UNCHANGED << authVars, location, lateSets, pageVars >>
    /\ headerEvent' = NoEvent

\* Variant of DoFetchStart without the "if (!q)" early return: the request is
\* issued whatever q is.
DoFetchStartNoEmptyCheck(i) ==
    /\ i \in 1..Len(effects)
    /\ TimerDue(effects[i])
    /\ effects' = [effects EXCEPT ![i].timer = "fired", ![i].req = "inflight"]
    /\ UNCHANGED << lsLogin, ssSearchBy, location, headerMounted, q, by, suggests, menuOpen,
                    lastSettled >>
    /\ UNCHANGED << authVars, location, lateSets, pageVars >>
    /\ headerEvent' = NoEvent

\* Variant of DoFetchStart whose empty-q branch returns without clearing.
DoFetchStartNoClear(i) ==
    /\ i \in 1..Len(effects)
    /\ TimerDue(effects[i])
    /\ effects' = IF ~Truthy(effects[i].q)
                  THEN [effects EXCEPT ![i].timer = "fired"]
                  ELSE [effects EXCEPT ![i].timer = "fired", ![i].req = "inflight"]
    /\ UNCHANGED << lsLogin, ssSearchBy, location, headerMounted, q, by, suggests, menuOpen,
                    lastSettled >>
    /\ UNCHANGED << authVars, location, lateSets, pageVars >>
    /\ headerEvent' = NoEvent

\* doFetch up to its await: with an empty q it clears the suggestions and
\* closes the panel, otherwise it issues autosuggest(q, by, 20).
DoFetchStart(i) ==
    /\ i \in 1..Len(effects)
    /\ TimerDue(effects[i])
    /\ IF ~Truthy(effects[i].q)
       THEN /\ suggests' = << >>
            /\ menuOpen' = FALSE
            /\ effects' = [effects EXCEPT ![i].timer = "fired"]
       ELSE /\ effects' = [effects EXCEPT ![i].timer = "fired", ![i].req = "inflight"]
            /\ UNCHANGED << suggests, menuOpen >>
    /\ UNCHANGED << lsLogin, ssSearchBy, location, headerMounted, q, by, lastSettled >>
    /\ UNCHANGED << authVars, location, lateSets, pageVars >>
    /\ headerEvent' = NoEvent

\* Variant of DoFetchResolve without the "if (mounted)" guard.
DoFetchResolveUnguarded(i, r) ==
    /\ i \in 1..Len(effects)
    /\ effects[i].req = "inflight"
    /\ effects' = [effects EXCEPT ![i].req = "ok"]
    /\ lastSettled' = i
    /\ suggests' = DataOrEmpty(r)
    /\ menuOpen' = (Len(DataOrEmpty(r)) > 0)
    /\ UNCHANGED << lsLogin, ssSearchBy, location, headerMounted, q, by >>
    /\ UNCHANGED << authVars, location, lateSets, pageVars >>
    /\ headerEvent' = NoEvent

\* Variant of DoFetchResolve that applies a response whenever its text still
\* equals the current text, ignoring the dimension and intermediate changes.
DoFetchResolveByText(i, r) ==
    /\ i \in 1..Len(effects)
    /\ effects[i].req = "inflight"
    /\ effects' = [effects EXCEPT ![i].req = "ok"]
    /\ lastSettled' = i
    /\ IF headerMounted /\ effects[i].q = q
       THEN /\ suggests' = DataOrEmpty(r)
            /\ menuOpen' = (Len(DataOrEmpty(r)) > 0)
       ELSE UNCHANGED << suggests, menuOpen >>
    /\ UNCHANGED << lsLogin, ssSearchBy, location, headerMounted, q, by >>
    /\ UNCHANGED << authVars, location, lateSets, pageVars >>
    /\ headerEvent' = NoEvent

\* Variant of DoFetchResolve that opens the panel for every applied response.
DoFetchResolveAlwaysOpens(i, r) ==
    /\ i \in 1..Len(effects)
    /\ effects[i].req = "inflight"
    /\ effects' = [effects EXCEPT ![i].req = "ok"]
    /\ lastSettled' = i
    /\ IF effects[i].mounted
       THEN /\ suggests' = DataOrEmpty(r)
            /\ menuOpen' = TRUE
       ELSE UNCHANGED << suggests, menuOpen >>
    /\ UNCHANGED << lsLogin, ssSearchBy, location, headerMounted, q, by >>
    /\ UNCHANGED << authVars, location, lateSets, pageVars >>
    /\ headerEvent' = NoEvent

\* doFetch after the await, the request having succeeded with body r.
DoFetchResolve(i, r) ==
    /\ i \in 1..Len(effects)
    /\ effects[i].req = "inflight"
    /\ effects' = [effects EXCEPT ![i].req = "ok"]
    /\ lastSettled' = i
    /\ IF effects[i].mounted
       THEN /\ suggests' = DataOrEmpty(r)
            /\ menuOpen' = (Len(DataOrEmpty(r)) > 0)
       ELSE UNCHANGED << suggests, menuOpen >>
    /\ UNCHANGED << lsLogin, ssSearchBy, location, headerMounted, q, by >>
    /\ UNCHANGED << authVars, location, lateSets, pageVars >>
    /\ headerEvent' = NoEvent

\* doFetch's catch: the error is logged and nothing else happens.
DoFetchReject(i) ==
    /\ i \in 1..Len(effects)
    /\ effects[i].req = "inflight"
    /\ effects' = [effects EXCEPT ![i].req = "failed"]
    /\ lastSettled' = i
    /\ UNCHANGED << lsLogin, ssSearchBy, location, headerMounted, q, by, suggests, menuOpen >>
    /\ UNCHANGED << authVars, location, lateSets, pageVars >>
    /\ headerEvent' = NoEvent

\* Variant of handleClickOutside that also clears the suggestions.
HandleClickOutsideClears ==
    /\ headerMounted /\ checkLog
    /\ menuOpen
    /\ menuOpen' = FALSE
    /\ suggests' = << >>
    /\ headerEvent' = ClickOutsideEvent
    /\ UNCHANGED << lsLogin, ssSearchBy, location, headerMounted, q, by, effects, lastSettled >>
    /\ UNCHANGED << authVars, location, lateSets, pageVars >>

\* mousedown outside the search box.
HandleClickOutside ==
    /\ headerMounted /\ checkLog
    /\ menuOpen
    /\ menuOpen' = FALSE
    /\ UNCHANGED << lsLogin, ssSearchBy, location, headerMounted, q, by, suggests, effects, lastSettled >>
    /\ UNCHANGED << authVars, location, lateSets, pageVars >>
    /\ headerEvent' = ClickOutsideEvent

\* Variant of handleSelect that treats every suggestion as a filter value.
HandleSelectAlwaysFilter(k) ==
    /\ headerMounted /\ checkLog
    /\ menuOpen /\ k \in 1..Len(suggests)
    /\ Navigate([path |-> RootPath, search |-> SearchSet(NoSearch, by, suggests[k].text)])
    /\ menuOpen' = FALSE
    /\ suggests' = << >>
    /\ q' = EmptyStr
    /\ effects' = IF q # EmptyStr THEN RerunEffect(effects, EmptyStr, by) ELSE effects
    /\ headerEvent' = SelectEvent(suggests[k], by)
    /\ UNCHANGED << lsLogin, ssSearchBy, authVars, lateSets, headerMounted, by, lastSettled >>

\* Variant of handleSelect without setQ(''): the text stays and the effect is
\* not re-run.
HandleSelectKeepsQuery(k) ==
    /\ headerMounted /\ checkLog
    /\ menuOpen /\ k \in 1..Len(suggests)
    /\ LET s == suggests[k] IN
         Navigate(IF Truthy(s.id)
                  THEN [path |-> DetailPath(s.id), search |-> NoSearch]
                  ELSE [path |-> RootPath, search |-> SearchSet(NoSearch, by, s.text)])
    /\ menuOpen' = FALSE
    /\ suggests' = << >>
    /\ headerEvent' = SelectEvent(suggests[k], by)
    /\ UNCHANGED << lsLogin, ssSearchBy, authVars, lateSets, headerMounted, q, by, effects, lastSettled >>

\* Click on a suggestion of the open panel.
HandleSelect(k) ==
    /\ headerMounted /\ checkLog
    /\ menuOpen /\ k \in 1..Len(suggests)
    /\ LET s == suggests[k] IN
         Navigate(IF Truthy(s.id)
                  THEN [path |-> DetailPath(s.id), search |-> NoSearch]
                  ELSE [path |-> RootPath, search |-> SearchSet(NoSearch, by, s.text)])
    /\ menuOpen' = FALSE
    /\ suggests' = << >>
    /\ q' = EmptyStr
    /\ effects' = IF q # EmptyStr THEN RerunEffect(effects, EmptyStr, by) ELSE effects
    /\ headerEvent' = SelectEvent(suggests[k], by)
    /\ UNCHANGED << lsLogin, ssSearchBy, authVars, lateSets, headerMounted, by, lastSettled >>

\* The Header is torn down: every effect's cleanup runs.
HeaderUnmount ==
    /\ headerMounted
    /\ headerMounted' = FALSE
    /\ effects' = [i \in 1..Len(effects) |-> Cleanup(effects[i])]
    /\ UNCHANGED << lsLogin, ssSearchBy, location, q, by, suggests, menuOpen, lastSettled >>
    /\ UNCHANGED << authVars, location, lateSets, pageVars >>
    /\ headerEvent' = NoEvent


\* Login's effect, the page being rendered at "/" (directly or through the
\* redirect to /login): a logged-in session is sent on to /dishes.
LoginRedirect ==
    /\ location.path \in {RootPath, LoginPath}
    /\ lsLogin = "true"
    /\ Navigate([path |-> ListPath, search |-> NoSearch])
    /\ headerEvent' = NoEvent
    /\ UNCHANGED << storeVars, authVars, lateSets, headerMounted, q, by, suggests, menuOpen, effects,
                    lastSettled >>

\* -------------------------------------------------------- ListPage actions
\* Variant of updateParam that stores every value, the empty ones included.
UpdateParamAlwaysSets(srch, key, value) == SearchSet(srch, key, JsToString(value))

\* updateParam(key, value): a copy of the address with the key removed when
\* value === "" || value == null, set to String(value) otherwise.
UpdateParam(srch, key, value) ==
    IF value = JsStr(EmptyStr) \/ value.type \in {"null", "undefined"}
    THEN SearchDelete(srch, key)
    ELSE SearchSet(srch, key, JsToString(value))

\* setQparams(newParams) on the mounted ListPage.
SetQparams(srch) ==
    /\ Navigate([path |-> location.path, search |-> srch])
    /\ UNCHANGED << storeVars, authVars, lateSets, headerVars >>

PageNow == GetNum(location.search, "page", DefaultPage)
LimitNow == GetNum(location.search, "limit", DefaultLimit)

\* Variant of the Prev computation with the floor at 0.
PrevPageFloorZero(p) == IF p.nan THEN p ELSE IF p.v - 1 < 0 THEN Num(0) ELSE Num(p.v - 1)

\* Math.max(1, page - 1)
PrevPage(p) == MathMax1(NumPlus(p, -1))

\* Number(e.target.value || 10)
TypedLimit(text) == IF Truthy(text) THEN ToNumber(text) ELSE Num(DefaultLimit)

\* Texts typed into the origin filter.
OriginInputs == {EmptyStr, Str1("a")}
\* Values typed into the page-size input.
LimitInputs == {EmptyStr, Str1("0")}
\* Column headers clicked.
SortInputs == {"name", "origin"}

\* onChange of the origin filter: updateParam("origin", e.target.value).
ListSetOrigin(text) ==
    /\ listMounted
    /\ text # GetStr(location.search, "origin")
    /\ SetQparams(UpdateParam(location.search, "origin", JsStr(text)))

\* Prev: updateParam("page", Math.max(1, page - 1)).
ListPrev ==
    /\ listMounted
    /\ SetQparams(UpdateParam(location.search, "page", JsNum(PrevPage(PageNow))))

\* Next: updateParam("page", page + 1).
ListNextPage ==
    /\ listMounted
    /\ SetQparams(UpdateParam(location.search, "page", JsNum(NumPlus(PageNow, 1))))

\* onChange of the page-size input: updateParam("limit", Number(value || 10)).
ListSetLimit(text) ==
    /\ listMounted
    /\ SetQparams(UpdateParam(location.search, "limit", JsNum(TypedLimit(text))))

\* Variant of toggleSort that keeps the direction when the column changes.
SortAfterToggleKeepsOrder(sb, so, col) ==
    IF sb = col
    THEN [sortBy |-> sb, sortOrder |-> IF so = "asc" THEN "desc" ELSE "asc"]
    ELSE [sortBy |-> col, sortOrder |-> so]

\* The sort state toggleSort(col) sets.
SortAfterToggle(sb, so, col) ==
    IF sb = col
    THEN [sortBy |-> sb, sortOrder |-> IF so = "asc" THEN "desc" ELSE "asc"]
    ELSE [sortBy |-> col, sortOrder |-> "asc"]

\* toggleSort(col): both setters are batched into one render.
ToggleSort(col) ==
    /\ listMounted
    /\ listIssued < MaxListFetches
    /\ LET next == SortAfterToggle(sortBy, sortOrder, col)
       IN ListRender(location.search, next.sortBy, next.sortOrder)
    /\ UNCHANGED << storeVars, authVars, location, lateSets, headerVars, recVars, detailVars >>

\* Click on the name link of a row.
ListOpenDish(k) ==
    /\ listMounted /\ ~loading
    /\ k \in 1..Len(dishes)
    /\ Navigate([path |-> DetailPath(dishes[k].id), search |-> NoSearch])
    /\ UNCHANGED << storeVars, authVars, lateSets, headerVars >>

\* The continuation of request k runs for the instance that is on screen.
ListLive(k) == listMounted /\ listReqs[k].inst = listInst

\* What the most recent settlement was: the request, whether it succeeded and
\* the body it brought.
Settled(req, ok, body) ==
    [id |-> req.id, inst |-> req.inst, params |-> req.params, ok |-> ok, body |-> body]

\* Variant of ListResolve that applies only the response of the newest request.
ListResolveLastIssuedWins(k, r) ==
    /\ k \in 1..Len(listReqs)
    /\ listReqs' = RemoveAt(listReqs, k)
    /\ listLast' = Settled(listReqs[k], TRUE, r)
    /\ IF ListLive(k)
       THEN /\ IF listReqs[k].id = listIssued
               THEN dishes' = DataOrEmpty(r) /\ total' = TotalOrZero(r)
               ELSE UNCHANGED << dishes, total >>
            /\ loading' = FALSE
            /\ UNCHANGED lateSets
       ELSE /\ UNCHANGED << dishes, total, loading >>
            /\ lateSets' = lateSets \cup {"ListPage"}
    /\ UNCHANGED << storeVars, authVars, location, headerVars, listMounted, listInst, sortBy, sortOrder,
                    listIssued, recVars, detailVars >>

\* load() after the await, the request having succeeded with body r:
\* setDishes, setTotal and, in finally, setLoading(false). No guard: React
\* drops the updates of an unmounted instance, the calls are made all the same.
ListResolve(k, r) ==
    /\ k \in 1..Len(listReqs)
    /\ listReqs' = RemoveAt(listReqs, k)
    /\ listLast' = Settled(listReqs[k], TRUE, r)
    /\ IF ListLive(k)
       THEN /\ dishes' = DataOrEmpty(r)
            /\ total' = TotalOrZero(r)
            /\ loading' = FALSE
            /\ UNCHANGED lateSets
       ELSE /\ UNCHANGED << dishes, total, loading >>
            /\ lateSets' = lateSets \cup {"ListPage"}
    /\ UNCHANGED << storeVars, authVars, location, headerVars, listMounted, listInst, sortBy, sortOrder,
                    listIssued, recVars, detailVars >>

\* load() when the request fails: the error is logged, finally runs
\* setLoading(false).
ListReject(k) ==
    /\ k \in 1..Len(listReqs)
    /\ listReqs' = RemoveAt(listReqs, k)
    /\ listLast' = Settled(listReqs[k], FALSE, NoBody)
    /\ IF ListLive(k)
       THEN loading' = FALSE /\ UNCHANGED lateSets
       ELSE UNCHANGED loading /\ lateSets' = lateSets \cup {"ListPage"}
    /\ UNCHANGED << storeVars, authVars, location, headerVars, listMounted, listInst, dishes, total,
                    sortBy, sortOrder, listIssued, recVars, detailVars >>

\* --------------------------------------------------- DishSuggester actions
\* toLowerCase on the letters the model uses.
LowerChar(c) ==
    CASE c = "R" -> "r" [] c = "L" -> "l" [] c = "I" -> "i" [] OTHER -> c
LowerCase(s) == [k \in 1..Len(s) |-> LowerChar(s[k])]

\* String.prototype.includes
Includes(s, part) ==
    \E k \in 0..(Len(s) - Len(part)) : SubSeq(s, k + 1, k + Len(part)) = part

SeqIncludes(xs, x) == \E k \in 1..Len(xs) : xs[k] = x

RECURSIVE SeqFilterOut(_, _)
SeqFilterOut(xs, x) ==
    IF xs = << >> THEN << >>
    ELSE (IF Head(xs) = x THEN << >> ELSE << Head(xs) >>) \o SeqFilterOut(Tail(xs), x)

\* filteredOptions: case-insensitive substring match against the search text.
FilteredOptions ==
    {options[k] : k \in {j \in 1..Len(options) :
                            Includes(LowerCase(options[j]), LowerCase(search))}}

\* Texts typed into the ingredient search box.
SearchInputs == {EmptyStr, Str1("R")}

RecLive(i) == recMounted /\ recReqs[i].inst = recInst

\* The bodies GET /dishes/ingredients can answer with.
IngredientBodies ==
    {[hasData |-> TRUE, data |-> << Rice, Lentil >>], [hasData |-> FALSE, data |-> << >>]}

\* The mount effect after its await: setOptions(ingredients || []).
RecLoadResolve(i, r) ==
    /\ recEvent' = NoRecEvent
    /\ i \in 1..Len(recReqs)
    /\ recReqs[i].kind = "load"
    /\ recReqs' = RemoveAt(recReqs, i)
    /\ IF RecLive(i)
       THEN options' = DataOrEmpty(r) /\ UNCHANGED lateSets
       ELSE UNCHANGED options /\ lateSets' = lateSets \cup {"DishSuggester"}
    /\ UNCHANGED << storeVars, authVars, location, headerVars, listVars, recMounted, recInst, selected,
                    search, results, matchType, recIssued, recLast, detailVars >>

\* The mount effect's catch: a warning is logged.
RecLoadReject(i) ==
    /\ recEvent' = NoRecEvent
    /\ i \in 1..Len(recReqs)
    /\ recReqs[i].kind = "load"
    /\ recReqs' = RemoveAt(recReqs, i)
    /\ UNCHANGED << storeVars, authVars, location, lateSets, headerVars, listVars, recMounted, recInst,
                    options, selected, search, results, matchType, recIssued, recLast, detailVars >>

\* Variant of the toggle updater that appends without looking.
ToggleSelectionAlwaysAppends(s, ing) == Append(s, ing)

\* The updater toggle hands to setSelected:
\* s => s.includes(ing) ? s.filter(x => x !== ing) : [...s, ing].
ToggleSelection(s, ing) ==
    IF SeqIncludes(s, ing) THEN SeqFilterOut(s, ing) ELSE Append(s, ing)

\* toggle(ing), from the checkbox of a listed ingredient.
Toggle(ing) ==
    /\ recEvent' = NoRecEvent
    /\ recMounted
    /\ ing \in FilteredOptions
    /\ selected' = ToggleSelection(selected, ing)
    /\ UNCHANGED << storeVars, authVars, location, lateSets, headerVars, listVars, recMounted, recInst,
                    options, search, results, matchType, recReqs, recIssued, recLast, detailVars >>

\* Variant of the match dropdown handler that also requests suggestions for
\* the new mode.
SetMatchTypeRefetches(m) ==
    /\ recEvent' = NoRecEvent
    /\ recMounted
    /\ matchType' = m
    /\ m # matchType
    /\ recIssued < MaxRecRequests
    /\ recReqs' = Append(recReqs, NewRecReq(recIssued + 1, recInst, "suggest", selected, m))
    /\ recIssued' = recIssued + 1
    /\ UNCHANGED << storeVars, authVars, location, lateSets, headerVars, listVars, recMounted, recInst,
                    options, selected, search, results, recLast, detailVars >>

\* onOptionSelect of the match dropdown.
SetMatchType(m) ==
    /\ recEvent' = NoRecEvent
    /\ recMounted
    /\ matchType' = m
    /\ m # matchType
    /\ UNCHANGED << storeVars, authVars, location, lateSets, headerVars, listVars, recMounted, recInst,
                    options, selected, search, results, recReqs, recIssued, recLast, detailVars >>

\* onChange of the ingredient search box.
SetSearch(text) ==
    /\ recEvent' = NoRecEvent
    /\ recMounted
    /\ text # search
    /\ search' = text
    /\ UNCHANGED << storeVars, authVars, location, lateSets, headerVars, listVars, recMounted, recInst,
                    options, selected, results, matchType, recReqs, recIssued, recLast, detailVars >>

\* Variant of the Suggest button that is never disabled.
SuggestNeverDisabled == FALSE

\* The Suggest button: disabled={selected.length === 0}.
SuggestDisabled == Len(selected) = 0

\* Variant of suggest() that calls suggestDishes(selected) and leaves the
\* match mode to the default of the service function.
SuggestDefaultMatch ==
    /\ recEvent' = NoRecEvent
    /\ recMounted
    /\ ~SuggestDisabled
    /\ recIssued < MaxRecRequests
    /\ recReqs' = Append(recReqs, NewRecReq(recIssued + 1, recInst, "suggest", selected,
                                            "all"))
    /\ recIssued' = recIssued + 1
    /\ UNCHANGED << storeVars, authVars, location, lateSets, headerVars, listVars, recMounted, recInst,
                    options, selected, search, results, matchType, recLast, detailVars >>

\* suggest() up to its await, from a click on the Suggest button.
Suggest ==
    /\ recEvent' = NoRecEvent
    /\ recMounted
    /\ ~SuggestDisabled
    /\ recIssued < MaxRecRequests
    /\ recReqs' = Append(recReqs, NewRecReq(recIssued + 1, recInst, "suggest", selected,
                                            matchType))
    /\ recIssued' = recIssued + 1
    /\ UNCHANGED << storeVars, authVars, location, lateSets, headerVars, listVars, recMounted, recInst,
                    options, selected, search, results, matchType, recLast, detailVars >>

\* What the most recent settlement of a suggestDishes call was: the request
\* and whether it succeeded.
SuggestSettled(req, ok) == [id |-> req.id, inst |-> req.inst, ok |-> ok]
NoSuggestSettled == [id |-> 0, inst |-> 0, ok |-> FALSE]

\* The bodies POST /dishes/from-ingredients can answer request i with.
SuggestBodies(i) ==
    {[hasData |-> TRUE, data |-> << ListRow(d, i) >>] : d \in DishIds}
    \cup {[hasData |-> FALSE, data |-> << >>]}

\* suggest() after the await: setResults(r.data || []).
SuggestResolve(i, r) ==
    /\ recEvent' = NoRecEvent
    /\ i \in 1..Len(recReqs)
    /\ recReqs[i].kind = "suggest"
    /\ recReqs' = RemoveAt(recReqs, i)
    /\ recLast' = SuggestSettled(recReqs[i], TRUE)
    /\ IF RecLive(i)
       THEN results' = DataOrEmpty(r) /\ UNCHANGED lateSets
       ELSE UNCHANGED results /\ lateSets' = lateSets \cup {"DishSuggester"}
    /\ UNCHANGED << storeVars, authVars, location, headerVars, listVars, recMounted, recInst, options,
                    selected, search, matchType, recIssued, detailVars >>

\* Variant of suggest()'s catch that only logs.
SuggestRejectKeepsResults(i) ==
    /\ recEvent' = NoRecEvent
    /\ i \in 1..Len(recReqs)
    /\ recReqs[i].kind = "suggest"
    /\ recReqs' = RemoveAt(recReqs, i)
    /\ recLast' = SuggestSettled(recReqs[i], FALSE)
    /\ UNCHANGED << storeVars, authVars, location, lateSets, headerVars, listVars, recMounted, recInst,
                    options, selected, search, results, matchType, recIssued, detailVars >>

\* suggest()'s catch: setResults([]).
SuggestReject(i) ==
    /\ recEvent' = NoRecEvent
    /\ i \in 1..Len(recReqs)
    /\ recReqs[i].kind = "suggest"
    /\ recReqs' = RemoveAt(recReqs, i)
    /\ recLast' = SuggestSettled(recReqs[i], FALSE)
    /\ IF RecLive(i)
       THEN results' = << >> /\ UNCHANGED lateSets
       ELSE UNCHANGED results /\ lateSets' = lateSets \cup {"DishSuggester"}
    /\ UNCHANGED << storeVars, authVars, location, headerVars, listVars, recMounted, recInst, options,
                    selected, search, matchType, recIssued, detailVars >>

\* Variant of clearAll() without setSearch('').
ClearAllKeepsSearch ==
    /\ recEvent' = ClearAllEvent
    /\ recMounted
    /\ selected' = << >>
    /\ results' = << >>
    /\ UNCHANGED << storeVars, authVars, location, lateSets, headerVars, listVars, recMounted, recInst,
                    options, search, matchType, recReqs, recIssued, recLast, detailVars >>

\* clearAll(): the three setters are batched into one render.
ClearAll ==
    /\ recEvent' = ClearAllEvent
    /\ recMounted
    /\ selected' = << >>
    /\ results' = << >>
    /\ search' = EmptyStr
    /\ UNCHANGED << storeVars, authVars, location, lateSets, headerVars, listVars, recMounted, recInst,
                    options, matchType, recReqs, recIssued, recLast, detailVars >>

\* ------------------------------------------------------ DetailPage actions
DetailLive(i) == detailMounted /\ detailReqs[i].inst = detailInst

\* The bodies GET /dishes/{id} can answer request i with.
DetailBodies(i) ==
    {[hasData |-> TRUE, data |-> DishOf(detailReqs[i].dishId, detailReqs[i].id)],
     [hasData |-> FALSE, data |-> NoDish]}

\* .then((r) => setDish(r.data))
DetailResolve(i, r) ==
    /\ i \in 1..Len(detailReqs)
    /\ detailReqs' = RemoveAt(detailReqs, i)
    /\ IF DetailLive(i)
       THEN dish' = (IF r.hasData THEN r.data ELSE NoDish) /\ UNCHANGED lateSets
       ELSE UNCHANGED dish /\ lateSets' = lateSets \cup {"DetailPage"}
    /\ UNCHANGED << storeVars, authVars, location, headerVars, listVars, recVars, detailMounted,
                    detailInst, detailId, detailIssued >>

\* .catch: the error is logged.
DetailReject(i) ==
    /\ i \in 1..Len(detailReqs)
    /\ detailReqs' = RemoveAt(detailReqs, i)
    /\ UNCHANGED << storeVars, authVars, location, lateSets, headerVars, listVars, recVars,
                    detailMounted, detailInst, detailId, dish, detailIssued >>

\* ------------------------------------------------------------ Auth actions
\* users.find((u) => u.email === email && u.password === password)
FindUser(users, email, password) ==
    \E k \in 1..Len(users) : users[k].email = email /\ users[k].password = password

\* Variant of the lookup that accepts a known email with the password of any
\* entry.
FindUserAnyPassword(users, email, password) ==
    /\ \E k \in 1..Len(users) : users[k].email = email
    /\ \E k \in 1..Len(users) : users[k].password = password

\* The Login page is on screen: the route /login, reached directly or through
\* the redirect of "/", for a session that is not logged in.
LoginShown == location.path \in {RootPath, LoginPath} /\ lsLogin # "true"

\* Variant of handleLogin that stores the identity but not the marker.
HandleLoginNoMarker(email, password) ==
    /\ authEvent' = LoginEvent(email, password)
    /\ headerEvent' = NoEvent
    /\ IF ~FindUser(lsUsers, email, password)
       THEN /\ authError' = InvalidCredentials
            /\ UNCHANGED << storeVars, lsUser, lsUsers, location, lateSets, pageVars >>
       ELSE /\ lsUser' = JsonUser(email)
            /\ NavigateFor([path |-> ListPath, search |-> NoSearch], lsLogin = "true")
            /\ authError' = NoError
            /\ UNCHANGED << storeVars, lsUsers, lateSets >>
    /\ UNCHANGED << headerMounted, q, by, suggests, menuOpen, effects, lastSettled >>

\* Variant of handleLogin whose lookup is FindUserAnyPassword.
HandleLoginAnyPassword(email, password) ==
    /\ authEvent' = LoginEvent(email, password)
    /\ headerEvent' = NoEvent
    /\ IF ~FindUserAnyPassword(lsUsers, email, password)
       THEN /\ authError' = InvalidCredentials
            /\ UNCHANGED << storeVars, lsUser, lsUsers, location, lateSets, pageVars >>
       ELSE /\ lsUser' = JsonUser(email)
            /\ lsLogin' = "true"
            /\ NavigateFor([path |-> ListPath, search |-> NoSearch], lsLogin' = "true")
            /\ authError' = NoError
            /\ UNCHANGED << ssSearchBy, lsUsers, lateSets >>
    /\ UNCHANGED << headerMounted, q, by, suggests, menuOpen, effects, lastSettled >>

\* handleLogin(email, password): without a matching entry setError("Invalid
\* credentials"); with one, "user" and "login" are written and navigate
\* ("/dishes") leaves the Login page.
HandleLogin(email, password) ==
    /\ authEvent' = LoginEvent(email, password)
    /\ headerEvent' = NoEvent
    /\ IF ~FindUser(lsUsers, email, password)
       THEN /\ authError' = InvalidCredentials
            /\ UNCHANGED << storeVars, lsUser, lsUsers, location, lateSets, pageVars >>
       ELSE /\ lsUser' = JsonUser(email)
            /\ lsLogin' = "true"
            /\ NavigateFor([path |-> ListPath, search |-> NoSearch], lsLogin' = "true")
            /\ authError' = NoError
            /\ UNCHANGED << ssSearchBy, lsUsers, lateSets >>
    /\ UNCHANGED << headerMounted, q, by, suggests, menuOpen, effects, lastSettled >>

\* AuthForm's handleSubmit on the Login page: nothing happens while the
\* trimmed email or password is empty, otherwise onSubmit(email, password).
LoginSubmit(email, password) ==
    /\ LoginShown
    /\ Trim(email) # EmptyStr /\ Trim(password) # EmptyStr
    /\ HandleLogin(email, password)

\* logout(), from the button of the Header: the marker is set to "false" and
\* navigate("/") shows the Login page.
Logout ==
    /\ headerMounted
    /\ lsLogin' = "false"
    /\ NavigateFor([path |-> RootPath, search |-> NoSearch], lsLogin' = "true")
    /\ authError' = NoError
    /\ authEvent' = LogoutEvent
    /\ headerEvent' = NoEvent
    /\ UNCHANGED << ssSearchBy, lsUser, lsUsers, lateSets, headerMounted, q, by, suggests,
                    menuOpen, effects, lastSettled >>

\* users.find((u) => u.email === email)
EmailTaken(users, email) == \E k \in 1..Len(users) : users[k].email = email

\* Variant of handleRegister that takes an email for registered only when
\* an entry holds it with the same password.
HandleRegisterByEntry(email, password) ==
    /\ authEvent' = RegisterEvent(email, password)
    /\ headerEvent' = NoEvent
    /\ IF FindUser(lsUsers, email, password)
       THEN /\ authError' = EmailAlreadyRegistered
            /\ UNCHANGED << storeVars, lsUser, lsUsers, location, lateSets, pageVars >>
       ELSE /\ lsUsers' = Append(lsUsers, UserEntry(email, password))
            /\ lsUser' = JsonUser(email)
            /\ NavigateFor([path |-> RootPath, search |-> NoSearch], ProtectedRouteOpen)
            /\ authError' = NoError
            /\ UNCHANGED << storeVars, lateSets >>
    /\ UNCHANGED << headerMounted, q, by, suggests, menuOpen, effects, lastSettled >>

\* Variant of handleRegister that, for an email already stored, replaces the
\* entry by one with the password given.
HandleRegisterReplaces(email, password) ==
    /\ authEvent' = RegisterEvent(email, password)
    /\ headerEvent' = NoEvent
    /\ lsUsers' = IF EmailTaken(lsUsers, email)
                  THEN [k \in 1..Len(lsUsers) |->
                           IF lsUsers[k].email = email THEN UserEntry(email, password)
                           ELSE lsUsers[k]]
                  ELSE Append(lsUsers, UserEntry(email, password))
    /\ lsUser' = JsonUser(email)
    /\ NavigateFor([path |-> RootPath, search |-> NoSearch], ProtectedRouteOpen)
    /\ authError' = NoError
    /\ UNCHANGED << storeVars, lateSets >>
    /\ UNCHANGED << headerMounted, q, by, suggests, menuOpen, effects, lastSettled >>

\* Variant of handleRegister that logs the new account in.
HandleRegisterLogsIn(email, password) ==
    /\ authEvent' = RegisterEvent(email, password)
    /\ headerEvent' = NoEvent
    /\ IF EmailTaken(lsUsers, email)
       THEN /\ authError' = EmailAlreadyRegistered
            /\ UNCHANGED << storeVars, lsUser, lsUsers, location, lateSets, pageVars >>
       ELSE /\ lsUsers' = Append(lsUsers, UserEntry(email, password))
            /\ lsUser' = JsonUser(email)
            /\ lsLogin' = "true"
            /\ NavigateFor([path |-> RootPath, search |-> NoSearch], ProtectedRouteOpen)
            /\ authError' = NoError
            /\ UNCHANGED << ssSearchBy, lateSets >>
    /\ UNCHANGED << headerMounted, q, by, suggests, menuOpen, effects, lastSettled >>

\* handleRegister(email, password): with an entry of that email already in
\* "users" setError("Email already registered"); otherwise the entry is
\* pushed, "users" and "user" are written and navigate("/") leaves the
\* Register page. The session marker is not touched.
HandleRegister(email, password) ==
    /\ authEvent' = RegisterEvent(email, password)
    /\ headerEvent' = NoEvent
    /\ IF EmailTaken(lsUsers, email)
       THEN /\ authError' = EmailAlreadyRegistered
            /\ UNCHANGED << storeVars, lsUser, lsUsers, location, lateSets, pageVars >>
       ELSE /\ lsUsers' = Append(lsUsers, UserEntry(email, password))
            /\ lsUser' = JsonUser(email)
            /\ NavigateFor([path |-> RootPath, search |-> NoSearch], ProtectedRouteOpen)
            /\ authError' = NoError
            /\ UNCHANGED << storeVars, lateSets >>
    /\ UNCHANGED << headerMounted, q, by, suggests, menuOpen, effects, lastSettled >>

\* AuthForm's handleSubmit on the Register page (the route /register).
RegisterSubmit(email, password) ==
    /\ location.path = RegisterPath
    /\ Trim(email) # EmptyStr /\ Trim(password) # EmptyStr
    /\ HandleRegister(email, password)

\* The addresses a user opens from the address bar or the links of the
\* public pages.
AuthLocations ==
    NavLocations
    \cup {[path |-> LoginPath, search |-> NoSearch],
          [path |-> RegisterPath, search |-> NoSearch]}

\* An address is opened: the router renders it; a Login or Register page
\* that comes on screen is a new instance, its error state null.
OpenPage(loc) ==
    /\ loc # location
    /\ NavigateFor(loc, ProtectedRouteOpen)
    /\ authError' = NoError
    /\ authEvent' = OpenEvent(loc.path)
    /\ headerEvent' = NoEvent
    /\ UNCHANGED << storeVars, lsUser, lsUsers, lateSets, headerMounted, q, by, suggests,
                    menuOpen, effects, lastSettled >>

\* ------------------------------------------------------------------- specs
Init ==
    /\ lsLogin = "true"
    /\ lsUser = JsonUser(EmailA)
    /\ lsUsers = << UserEntry(EmailA, Str1("p")) >>
    /\ authError = NoError
    /\ authEvent = NoAuthEvent
    /\ ssSearchBy \in {"null"} \cup ByInputs
    /\ location = [path |-> ListPath, search |-> NoSearch]
    /\ headerMounted = TRUE
    /\ q = EmptyStr
    /\ by = InitialBy(ssSearchBy)
    /\ suggests = << >>
    /\ menuOpen = FALSE
    /\ effects = << NewEffect(EmptyStr, InitialBy(ssSearchBy)) >>
    /\ lastSettled = 0
    /\ headerEvent = NoEvent
    /\ lateSets = {}
    /\ listMounted = TRUE
    /\ listInst = 1
    /\ dishes = << >>
    /\ total = 0
    /\ loading = TRUE
    /\ sortBy = "name"
    /\ sortOrder = "asc"
    /\ listReqs = << NewListReq(1, 1, QueryParams(NoSearch, "name", "asc")) >>
    /\ listIssued = 1
    /\ listLast = NoneSettled
    /\ recMounted = TRUE
    /\ recInst = 1
    /\ options = << >>
    /\ selected = << >>
    /\ search = EmptyStr
    /\ results = << >>
    /\ matchType = "all"
    /\ recReqs = << NewRecReq(1, 1, "load", << >>, "all") >>
    /\ recIssued = 1
    /\ recLast = NoSuggestSettled
    /\ recEvent = NoRecEvent
    /\ detailMounted = FALSE
    /\ detailInst = 0
    /\ detailId = EmptyStr
    /\ dish = NoDish
    /\ detailReqs = << >>
    /\ detailIssued = 0

HeaderNext ==
    \/ \E text \in Texts : SetQ(text)
    \/ \E value \in ByInputs : SetBy(value)
    \/ Tick
    \/ \E i \in 1..Len(effects) : DoFetchStart(i)
    \/ \E i \in 1..Len(effects) : \E r \in SuggestResponses(effects[i].q, effects[i].by) :
          DoFetchResolve(i, r)
    \/ \E i \in 1..Len(effects) : DoFetchReject(i)
    \/ HandleClickOutside
    \/ \E k \in 1..Len(suggests) : HandleSelect(k)
    \/ LoginRedirect
    \/ HeaderUnmount

HeaderSpec == Init /\ [][HeaderNext]_vars

\* The list view while it stays on screen: its controls, navigation of the
\* address among list addresses, and the settlement of its fetches.
ListNext ==
    \/ \E text \in OriginInputs : ListSetOrigin(text)
    \/ ListPrev
    \/ ListNextPage
    \/ \E text \in LimitInputs : ListSetLimit(text)
    \/ \E col \in SortInputs : ToggleSort(col)
    \/ \E loc \in ListLocations : ExternalNavigate(loc)
    \/ \E i \in 1..Len(listReqs) : \E r \in ListBodies(listReqs[i].id) : ListResolve(i, r)
    \/ \E i \in 1..Len(listReqs) : ListReject(i)

ListSpec == Init /\ [][ListNext]_vars

\* The ingredient picker while it stays on screen.
RecNext ==
    \/ \E i \in 1..Len(recReqs) : \E r \in IngredientBodies : RecLoadResolve(i, r)
    \/ \E i \in 1..Len(recReqs) : RecLoadReject(i)
    \/ \E ing \in {Rice, Lentil} : Toggle(ing)
    \/ \E m \in {"all", "some"} : SetMatchType(m)
    \/ \E text \in SearchInputs : SetSearch(text)
    \/ Suggest
    \/ \E i \in 1..Len(recReqs) : \E r \in SuggestBodies(recReqs[i].id) : SuggestResolve(i, r)
    \/ \E i \in 1..Len(recReqs) : SuggestReject(i)
    \/ ClearAll

RecSpec == Init /\ [][RecNext]_vars

\* The pages as the router mounts and unmounts them, with the settlement of
\* the fetches their effects issued.
PagesNext ==
    \/ \E loc \in NavLocations : ExternalNavigate(loc)
    \/ \E k \in 1..Len(dishes) : ListOpenDish(k)
    \/ \E i \in 1..Len(listReqs) : \E r \in ListBodies(listReqs[i].id) : ListResolve(i, r)
    \/ \E i \in 1..Len(listReqs) : ListReject(i)
    \/ \E i \in 1..Len(recReqs) : \E r \in IngredientBodies : RecLoadResolve(i, r)
    \/ \E i \in 1..Len(recReqs) : RecLoadReject(i)
    \/ \E i \in 1..Len(detailReqs) : \E r \in DetailBodies(i) : DetailResolve(i, r)
    \/ \E i \in 1..Len(detailReqs) : DetailReject(i)

PagesSpec == Init /\ [][PagesNext]_vars

\* The route ids of the detail views opened in turn.
DetailIds == DishIds \cup {<< "d", "2" >>}

DetailLocations ==
    {[path |-> ListPath, search |-> NoSearch]}
    \cup {[path |-> DetailPath(d), search |-> NoSearch] : d \in DetailIds}

\* The detail view as the address moves between dishes and back to the
\* list, with the settlement of its fetches.
DetailNext ==
    \/ \E loc \in DetailLocations : ExternalNavigate(loc)
    \/ \E i \in 1..Len(detailReqs) : \E r \in DetailBodies(i) : DetailResolve(i, r)
    \/ \E i \in 1..Len(detailReqs) : DetailReject(i)

DetailSpec == Init /\ [][DetailNext]_vars

\* The application opened on /login without a session: no page of the
\* protected routes is mounted; "users" holds the registered accounts.
AuthInit ==
    /\ lsLogin = "null"
    /\ lsUser = NoUser
    /\ lsUsers \in {<< >>,
                    << UserEntry(EmailA, Str1("p")) >>,
                    << UserEntry(EmailA, Str1("p")), UserEntry(EmailB, Str1("q")) >>}
    /\ authError = NoError
    /\ authEvent = NoAuthEvent
    /\ ssSearchBy = "null"
    /\ location = [path |-> LoginPath, search |-> NoSearch]
    /\ headerMounted = TRUE
    /\ q = EmptyStr
    /\ by = InitialBy(ssSearchBy)
    /\ suggests = << >>
    /\ menuOpen = FALSE
    /\ effects = << NewEffect(EmptyStr, InitialBy(ssSearchBy)) >>
    /\ lastSettled = 0
    /\ headerEvent = NoEvent
    /\ lateSets = {}
    /\ listMounted = FALSE
    /\ listInst = 0
    /\ dishes = << >>
    /\ total = 0
    /\ loading = FALSE
    /\ sortBy = "name"
    /\ sortOrder = "asc"
    /\ listReqs = << >>
    /\ listIssued = 0
    /\ listLast = NoneSettled
    /\ recMounted = FALSE
    /\ recInst = 0
    /\ options = << >>
    /\ selected = << >>
    /\ search = EmptyStr
    /\ results = << >>
    /\ matchType = "all"
    /\ recReqs = << >>
    /\ recIssued = 0
    /\ recLast = NoSuggestSettled
    /\ recEvent = NoRecEvent
    /\ detailMounted = FALSE
    /\ detailInst = 0
    /\ detailId = EmptyStr
    /\ dish = NoDish
    /\ detailReqs = << >>
    /\ detailIssued = 0

\* A returning session: the browser still holds the marker "true" and some
\* value of "user", and opens the application on /login.
IdentityInit ==
    /\ lsLogin = "true"
    /\ lsUser \in StoredUsers
    /\ lsUsers = << UserEntry(EmailA, Str1("p")) >>
    /\ authError = NoError
    /\ authEvent = NoAuthEvent
    /\ ssSearchBy = "null"
    /\ location = [path |-> LoginPath, search |-> NoSearch]
    /\ headerMounted = TRUE
    /\ q = EmptyStr
    /\ by = InitialBy(ssSearchBy)
    /\ suggests = << >>
    /\ menuOpen = FALSE
    /\ effects = << NewEffect(EmptyStr, InitialBy(ssSearchBy)) >>
    /\ lastSettled = 0
    /\ headerEvent = NoEvent
    /\ lateSets = {}
    /\ listMounted = FALSE
    /\ listInst = 0
    /\ dishes = << >>
    /\ total = 0
    /\ loading = FALSE
    /\ sortBy = "name"
    /\ sortOrder = "asc"
    /\ listReqs = << >>
    /\ listIssued = 0
    /\ listLast = NoneSettled
    /\ recMounted = FALSE
    /\ recInst = 0
    /\ options = << >>
    /\ selected = << >>
    /\ search = EmptyStr
    /\ results = << >>
    /\ matchType = "all"
    /\ recReqs = << >>
    /\ recIssued = 0
    /\ recLast = NoSuggestSettled
    /\ recEvent = NoRecEvent
    /\ detailMounted = FALSE
    /\ detailInst = 0
    /\ detailId = EmptyStr
    /\ dish = NoDish
    /\ detailReqs = << >>
    /\ detailIssued = 0

\* The session: registrations, logins and logouts, the addresses opened in
\* between and the pages the router mounts for them.
AuthNext ==
    \/ \E email \in Emails : \E password \in Passwords : LoginSubmit(email, password)
    \/ \E email \in Emails : \E password \in Passwords : RegisterSubmit(email, password)
    \/ Logout
    \/ \E loc \in AuthLocations : OpenPage(loc)
    \/ LoginRedirect

AuthSpec == AuthInit /\ [][AuthNext]_vars

IdentitySpec == IdentityInit /\ [][AuthNext]_vars

\* ------------------------------------------------- Header: shorthand
LastEffect == effects[Len(effects)]
Issued(e) == e.req # "none"
\* The items of a SuggestionSet were all fetched for query (qq, b).
FetchedFor(items, qq, b) ==
    \A k \in 1..Len(items) : items[k].q = qq /\ items[k].by = b

\* ------------------------------------------------------------ claims: Header

\* C1: a suggestion response is applied only if the query (text and dimension)
\* has not changed since its request was issued: when the request of a run that
\* is no longer the newest run of the effect settles, the SuggestionSet and the
\* panel state stay as they are, whatever the order of arrival.
C1_StaleResponseNeverApplied ==
    [][\A i \in 1..Len(effects) :
          (/\ effects[i].req = "inflight"
           /\ effects'[i].req # "inflight"
           /\ i < Len(effects))
          => (suggests' = suggests /\ menuOpen' = menuOpen)]_vars

\* C1 witness: the response for "a" settled last, after the request for "ab"
\* was issued and answered, and the suggestions shown are those of "ab".
C1_Witness ==
    /\ Len(effects) = 3
    /\ effects[2].q = Str1("a") /\ effects[2].req = "ok"
    /\ effects[3].q = Str2("a", "b") /\ effects[3].req = "ok"
    /\ lastSettled = 2
    /\ q = Str2("a", "b")
    /\ suggests # << >> /\ FetchedFor(suggests, Str2("a", "b"), by)

\* C2 (as amended): a run of the effect that was superseded before its quiet
\* period elapsed never issues a fetch; only the newest run holds an armed
\* timer; a fetch is issued only once the full quiet period has elapsed; the
\* newest run carries the current text and dimension; and once its timer has
\* fired it has issued exactly one fetch if its text is non-empty and none if
\* its text is empty.
C2_DebounceOneFetchForFinalValue ==
    /\ \A i \in 1..Len(effects) :
          /\ effects[i].timer = "cleared" => ~Issued(effects[i])
          /\ i < Len(effects) => effects[i].timer # "pending"
          /\ Issued(effects[i]) =>
                effects[i].timer = "fired" /\ effects[i].elapsed = DebounceMs
          /\ effects[i].timer = "fired" => (Issued(effects[i]) <=> Truthy(effects[i].q))
    /\ headerMounted => (LastEffect.q = q /\ LastEffect.by = by)

\* C2 witness: "a" was superseded by "ab" inside the window, and the one fetch
\* issued after the quiet period carries "ab".
C2_Witness ==
    /\ Len(effects) = 3
    /\ effects[2].q = Str1("a") /\ effects[2].timer = "cleared"
    /\ effects[3].q = Str2("a", "b") /\ effects[3].req = "inflight"
    /\ q = Str2("a", "b")

\* C2 (as stated): after the quiet period following the last update of a
\* sequence, exactly one fetch has been issued.
C2_AsStated ==
    (Len(effects) >= 2 /\ LastEffect.timer = "fired") => Issued(LastEffect)

\* C7 (as stated): when the autosuggest fetch of the current query has failed,
\* the SuggestionSet is empty and the panel is closed.
C7_FailureYieldsEmptyResult ==
    (/\ headerMounted
     /\ lastSettled = Len(effects)
     /\ LastEffect.req = "failed")
    => (suggests = << >> /\ ~menuOpen)

\* C8 (as amended): whenever the SuggestionSet is given a new non-empty value,
\* that value is the result of a fetch issued for the Query (text and
\* dimension) current at that moment.
C8_AppliedForQueryCurrentAtApply ==
    [][(suggests' # suggests /\ suggests' # << >>) => FetchedFor(suggests', q', by')]_vars

\* C8 witness: suggestions fetched for "a" are held while the text is "ab".
C8_Witness ==
    /\ q = Str2("a", "b")
    /\ suggests # << >>
    /\ FetchedFor(suggests, Str1("a"), by)

\* C8 (as stated): a non-empty SuggestionSet is the result of a fetch issued
\* for the current Query.
C8_AsStated ==
    suggests # << >> => FetchedFor(suggests, q, by)

C10_NoRequestWithEmptyText ==
    \A i \in 1..Len(effects) : Issued(effects[i]) => Truthy(effects[i].q)

\* C10 witness: the timer of a non-empty text was still pending when the text
\* was set to "", and the timer of "" has fired without a request.
C10_Witness ==
    \E i \in 1..(Len(effects) - 1) :
        /\ Truthy(effects[i].q) /\ effects[i].timer = "cleared"
        /\ effects[i + 1].q = EmptyStr
        /\ effects[i + 1].timer = "fired"
        /\ ~Issued(effects[i + 1])

\* ---------------------------------------------------------- ListPage: shorthand
\* The parameter set of the current render.
ListParams == QueryParams(location.search, sortBy, sortOrder)

\* A fetch of the instance on screen is pending.
ListFetchInFlight == \E k \in 1..Len(listReqs) : listReqs[k].inst = listInst

\* The table body: the placeholder while loading, "No results" for an empty
\* page, the rows otherwise.
ListBodyView ==
    IF loading THEN "loading" ELSE IF Len(dishes) = 0 THEN "empty" ELSE "rows"

\* ------------------------------------------------------------- claims: pages

C4_LoadingWhileFetchInFlight ==
    (listMounted /\ ListFetchInFlight) => (loading /\ ListBodyView = "loading")

\* C5: once all overlapping list fetches have settled, the items and the total
\* shown are those of the response that settled last, whichever request was
\* issued last.
C5_LastSettledWins ==
    (listMounted /\ ~ListFetchInFlight /\ listLast.inst = listInst /\ listLast.ok)
    => (dishes = DataOrEmpty(listLast.body) /\ total = TotalOrZero(listLast.body))

\* C5 witness: the response that settled last belongs to a request issued
\* before the newest one, for a parameter set that is no longer current, and
\* its rows are the ones shown.
C5_Witness ==
    /\ listMounted /\ ~ListFetchInFlight
    /\ listLast.ok /\ listLast.inst = listInst
    /\ listLast.id < listIssued
    /\ listLast.params # ListParams
    /\ Len(dishes) = 1 /\ dishes[1].req = listLast.id
    /\ total = listLast.id

\* C6: a step that changes the value of a list parameter while the list stays
\* on screen issues exactly one fetch, carrying the complete new parameter set.
C6_OneFetchPerParameterChange ==
    [][(listMounted /\ listMounted' /\ listInst' = listInst /\ ListParams' # ListParams)
       => /\ listIssued' = listIssued + 1
          /\ listReqs' = Append(listReqs, NewListReq(listIssued', listInst, ListParams'))]_vars

\* C6 witness: with the direction at desc another column was clicked, and the
\* one request issued for that click carries the new column with asc.
C6_Witness ==
    \E k \in 1..(Len(listReqs) - 1) :
        /\ listReqs[k + 1].id = listReqs[k].id + 1
        /\ listReqs[k].params.sortOrder = "desc"
        /\ listReqs[k + 1].params.sortOrder = "asc"
        /\ listReqs[k + 1].params.sortBy # listReqs[k].params.sortBy
        /\ listReqs[k + 1].id = listIssued
        /\ listReqs[k + 1].params = ListParams

\* ------------------------------------------------ claims: Header selection
\* The step ran handleSelect / handleClickOutside.
SelectStep == headerEvent'.name = "handleSelect"
ClickOutsideStep == headerEvent'.name = "handleClickOutside"

\* The value a list parameter set carries for a search dimension; the set has
\* fields for origin and ingredient, none for name and state.
ParamFor(params, b) ==
    CASE b = "origin" -> params.origin
      [] b = "ingredient" -> params.ingredient
      [] OTHER -> EmptyStr

\* C11: selecting a suggestion without an identifier sets the list parameter
\* of the current dimension to the selected value, and the list view issues
\* exactly one fetch carrying that value.
C11_SelectSetsListParameter ==
    [][(SelectStep /\ ~Truthy(headerEvent'.item.id))
       => /\ location'.path = ListPath
          /\ GetStr(location'.search, by) = headerEvent'.item.text
          /\ listMounted'
          /\ listIssued' = listIssued + 1
          /\ ParamFor(listReqs'[Len(listReqs')].params, by) = headerEvent'.item.text]_vars

C13_SelectionClearsAndStaysCleared ==
    [][/\ SelectStep
          => /\ ~menuOpen' /\ suggests' = << >> /\ q' = EmptyStr
             /\ \A i \in 1..Len(effects') :
                   effects'[i].req = "inflight" => ~effects'[i].mounted
       /\ \A i \in 1..Len(effects) :
             (~effects[i].mounted /\ effects[i].req = "inflight"
              /\ effects'[i].req # "inflight")
             => (suggests' = suggests /\ menuOpen' = menuOpen)]_vars

\* C13 witness: a suggestion was selected while the request of a newer query
\* was still pending.
C13_Witness ==
    /\ headerEvent.name = "handleSelect"
    /\ \E i \in 1..Len(effects) : effects[i].req = "inflight"
    /\ ~menuOpen /\ suggests = << >> /\ q = EmptyStr

\* C14: a pointer interaction outside the search box closes the panel, keeps
\* the text, the dimension and the SuggestionSet, and issues no fetch.
C14_ClickOutsideOnlyCloses ==
    [][ClickOutsideStep
       => /\ ~menuOpen'
          /\ q' = q /\ by' = by /\ suggests' = suggests
          /\ effects' = effects
          /\ location' = location
          /\ listIssued' = listIssued /\ recIssued' = recIssued
          /\ detailIssued' = detailIssued]_vars

\* C14 witness: the panel was closed from outside and the suggestions and the
\* text are still there.
C14_Witness ==
    /\ headerEvent.name = "handleClickOutside"
    /\ ~menuOpen /\ suggests # << >> /\ Truthy(q)

\* C15: the panel is never open over an empty SuggestionSet, and when a
\* response is applied the panel is open exactly if the applied list is
\* non-empty.
C15_PanelOpenIffNonEmpty ==
    /\ [](menuOpen => suggests # << >>)
    /\ [][\A i \in 1..Len(effects) :
             (effects[i].mounted /\ effects[i].req = "inflight" /\ effects'[i].req = "ok")
             => (menuOpen' <=> suggests' # << >>)]_vars

\* C15 witness: the response applied last brought an empty list, and the
\* panel is closed.
C15_Witness ==
    \E i \in 1..Len(effects) :
        /\ lastSettled = i
        /\ effects[i].mounted /\ effects[i].req = "ok"
        /\ suggests = << >> /\ ~menuOpen

\* -------------------------------------------------- claims: list parameters
\* Keys and values updateParam is applied to.
UpdateKeys == {"page", "limit", "origin"}
UpdateValues ==
    {JsStr(EmptyStr), JsStr(Str1("a")), JsNum(Num(0)), JsNum(Num(2)), JsNum(NaN),
     JsNull, JsUndefined}
IsEmptyValue(value) ==
    value = JsStr(EmptyStr) \/ value = JsNull \/ value = JsUndefined

\* A number that is an integer >= 1.
IsPositiveInt(n) == ~n.nan /\ n.v >= 1

\* C16: updateParam(key, value) on the current address removes the key when
\* the value is "", null or undefined, sets it to the value otherwise, never
\* stores an empty string, and keeps every other key with its value.
C16_UpdateParamReadModifyWrite ==
    \A key \in UpdateKeys : \A value \in UpdateValues :
        LET old == location.search
            new == UpdateParam(old, key, value)
        IN /\ IsEmptyValue(value) => ~SearchHas(new, key)
           /\ ~IsEmptyValue(value)
              => (SearchHas(new, key) /\ new[key] = JsToString(value))
           /\ SearchHas(new, key) => new[key] # EmptyStr
           /\ \A k \in (DOMAIN old \cup DOMAIN new) \ {key} :
                 SearchHas(old, k) /\ SearchHas(new, k) /\ new[k] = old[k]

\* C16 witness: the origin filter was set and emptied again; the address has
\* no origin key and still has its page key.
C16_Witness ==
    /\ listMounted
    /\ SearchHas(location.search, "page") /\ ~SearchHas(location.search, "origin")
    /\ \E k \in 1..Len(listReqs) :
          /\ listReqs[k].params.origin = Str1("a")
          /\ listReqs[k].params.page = PageNow
          /\ listReqs[k].id < listIssued

\* C17: toggleSort on the active column flips the direction and keeps the
\* column, twice in a row it restores the sort state; on another column it
\* makes that column active with direction asc. Every change of the sort
\* state of an instance is such a toggle.
C17_ToggleSortFlipsOrResets ==
    /\ [](\A col \in SortInputs :
            LET next == SortAfterToggle(sortBy, sortOrder, col)
            IN IF col = sortBy
               THEN /\ next.sortBy = sortBy
                    /\ next.sortOrder = (IF sortOrder = "asc" THEN "desc" ELSE "asc")
                    /\ SortAfterToggle(next.sortBy, next.sortOrder, col)
                         = [sortBy |-> sortBy, sortOrder |-> sortOrder]
               ELSE next = [sortBy |-> col, sortOrder |-> "asc"])
    /\ [][(listInst' = listInst /\ << sortBy, sortOrder >>' # << sortBy, sortOrder >>)
          => \E col \in SortInputs :
                [sortBy |-> sortBy', sortOrder |-> sortOrder']
                  = SortAfterToggle(sortBy, sortOrder, col)]_vars

\* C17 witness: the direction was desc on name when origin was clicked; origin
\* is active with asc.
C17_Witness ==
    /\ listMounted
    /\ sortBy = "origin" /\ sortOrder = "asc"
    /\ \E k \in 1..Len(listReqs) :
          /\ listReqs[k].id = listIssued - 1
          /\ listReqs[k].params.sortBy = "name"
          /\ listReqs[k].params.sortOrder = "desc"

\* C18: with Prev and Next the page never goes below 1: the page of every
\* reachable address is >= 1, and Prev yields a page >= 1 that the address
\* hands back unchanged; at page 1 it yields 1.
C18_PageNeverBelowOne ==
    /\ IsPositiveInt(PageNow)
    /\ LET p == PrevPage(PageNow)
       IN /\ IsPositiveInt(p)
          /\ PageNow.v = 1 => p.v = 1
          /\ GetNum(UpdateParam(location.search, "page", JsNum(p)), "page", DefaultPage) = p

\* C18 witness: after Next and Prev the address holds page 1, the fetch for
\* page 2 still pending.
C18_Witness ==
    /\ listMounted
    /\ SearchHas(location.search, "page") /\ location.search["page"] = Str1("1")
    /\ \E k \in 1..Len(listReqs) : listReqs[k].params.page = Num(2)

\* C19: the page and the page size of every list fetch are integers >= 1.
C19_PageAndLimitAtLeastOne ==
    \A k \in 1..Len(listReqs) :
        IsPositiveInt(listReqs[k].params.page) /\ IsPositiveInt(listReqs[k].params.limit)

\* C20: the parameter set of the list view is a function of the address: the
\* view at an address fetches with what a fresh view at that address fetches
\* with, sort column and direction included.
C20_ParametersFunctionOfAddress ==
    listMounted => ListParams = QueryParams(location.search, "name", "asc")

\* ------------------------------------------------- claims: failure, display
\* The ListPage keeps no error state: its state is dishes, total, loading,
\* sortBy and sortOrder, and its table renders no error message.
ListErrorShown == FALSE

\* C21: when a list fetch of the view on screen fails, the rows shown after
\* the failure are empty or an error message is shown, and no fetch is issued
\* by the failure.
C21_FailedFetchShowsEmptyOrError ==
    [][(/\ listLast' # listLast
        /\ ~listLast'.ok
        /\ listMounted /\ listLast'.inst = listInst)
       => /\ listIssued' = listIssued
          /\ (dishes' = << >> \/ ListErrorShown)]_vars

\* formatValue(value, fallback = "-"): the default of the second parameter.
Fallback == JsStr(Str1("-"))
MinusOneStr == << "-", "1" >>

\* formatValue: the fallback when value === null || value === undefined ||
\* value === "" || value === "-1", the value itself otherwise.
FormatValue(value, fallback) ==
    IF \/ value = JsNull
       \/ value = JsUndefined
       \/ value = JsStr(EmptyStr)
       \/ value = JsStr(MinusOneStr)
    THEN fallback
    ELSE value

\* Values of the Dish fields handed to formatValue: origin?: string,
\* prep_time?, cook_time?: number | string.
FieldValues ==
    {JsNull, JsUndefined, JsStr(EmptyStr), JsStr(MinusOneStr), JsNum(Num(0 - 1)),
     JsNum(Num(0)), JsNum(Num(45)), JsStr(Str1("a")), JsStr(Str1("-"))}

\* The prep_time values of the rows in the table, each rendered as
\* formatValue(d.prep_time).
ShownPrepTimes == {dishes[k].prep_time : k \in 1..Len(dishes)}

\* A field that is null, undefined, empty or the sentinel -1 in either of its
\* representations.
IsMissingField(value) ==
    \/ value \in {JsNull, JsUndefined, JsStr(EmptyStr), JsStr(MinusOneStr)}
    \/ value = JsNum(Num(0 - 1))

\* C22: formatValue returns the fallback glyph "-" for null, undefined, the
\* empty string and the sentinel -1 (number or string), and every other value
\* unchanged; for the values the Dish type allows and for those of the rows
\* on screen.
C22_FormatValueFallback ==
    \A value \in FieldValues \cup ShownPrepTimes :
        FormatValue(value, Fallback) = (IF IsMissingField(value) THEN Fallback ELSE value)

\* ---------------------------------------------------- claims: recommender
\* The tokens of a selection, and the tokens a checkbox exists for.
TokenSet(s) == {s[k] : k \in 1..Len(s)}
Tokens == {Rice, Lentil}
NoDuplicates(s) == \A j, k \in 1..Len(s) : s[j] = s[k] => j = k

\* C23: toggle(token) flips the membership of exactly that token and keeps
\* the membership of every other token; twice with the same token it restores
\* the selection as a set; the selection never holds a token twice; and a
\* step that changes the selection without emptying it is one toggle.
C23_ToggleFlipsMembership ==
    /\ [](/\ NoDuplicates(selected)
          /\ \A ing \in Tokens :
                LET once == ToggleSelection(selected, ing)
                    twice == ToggleSelection(once, ing)
                IN /\ (ing \in TokenSet(once)) <=> (ing \notin TokenSet(selected))
                   /\ TokenSet(once) \ {ing} = TokenSet(selected) \ {ing}
                   /\ TokenSet(twice) = TokenSet(selected)
                   /\ NoDuplicates(once) /\ NoDuplicates(twice))
    /\ [][(selected' # selected /\ selected' # << >>)
          => \E ing \in Tokens : selected' = ToggleSelection(selected, ing)]_vars

\* C23 witness: suggest() was triggered with rice selected before lentil; rice
\* was then toggled off and on again and now comes after lentil, once.
C23_Witness ==
    /\ recMounted
    /\ selected = << Lentil, Rice >>
    /\ \E k \in 1..Len(recReqs) :
          /\ recReqs[k].kind = "suggest"
          /\ recReqs[k].ingredients = << Rice, Lentil >>

\* C24: the recommendation endpoint is never called with an empty ingredient
\* list: every request carries at least one ingredient, a request is issued
\* only from a non-empty selection, and while the selection is empty suggest()
\* cannot be triggered.
C24_NoSuggestWithEmptySelection ==
    /\ [](\A k \in 1..Len(recReqs) :
             recReqs[k].kind = "suggest" => recReqs[k].ingredients # << >>)
    /\ [](selected = << >> => ~ENABLED Suggest)
    /\ [][recIssued' # recIssued => selected # << >>]_vars

\* C24 witness: a request was issued from a non-empty selection; the last
\* token was then toggled off or the selection cleared, and the button is
\* disabled while the request is pending.
C24_Witness ==
    /\ recMounted
    /\ selected = << >> /\ SuggestDisabled
    /\ recIssued < MaxRecRequests
    /\ \E k \in 1..Len(recReqs) :
          recReqs[k].kind = "suggest" /\ recReqs[k].ingredients # << >>

\* C25: when the recommendation request of the widget on screen fails, the
\* results become empty, the selection, the match mode, the search text and
\* the candidate list are unchanged, and no request is issued.
C25_SuggestFailsClosed ==
    [][(/\ recLast' # recLast
        /\ ~recLast'.ok
        /\ recMounted /\ recLast'.inst = recInst)
       => /\ results' = << >>
          /\ selected' = selected /\ matchType' = matchType /\ search' = search
          /\ options' = options
          /\ recIssued' = recIssued]_vars

\* C25 witness: the request settled last has failed; the results are empty
\* while both tokens are selected, the mode is "some" and the search text is
\* not empty.
C25_Witness ==
    /\ recMounted
    /\ recLast.id # 0 /\ ~recLast.ok /\ recLast.inst = recInst
    /\ results = << >>
    /\ selected = << Rice, Lentil >> /\ matchType = "some" /\ search # EmptyStr

\* C26: suggest() calls the recommendation endpoint with the tokens selected
\* at the moment it is triggered, none missing and none extra, and with the
\* match mode current at that moment; the step changes neither of them.
C26_SuggestPayloadIsSelection ==
    [][(recIssued' # recIssued)
       => LET r == recReqs'[Len(recReqs')]
          IN /\ recReqs' = Append(recReqs, r)
             /\ r.kind = "suggest" /\ r.id = recIssued' /\ r.inst = recInst
             /\ r.ingredients = selected
             /\ r.match = matchType
             /\ selected' = selected /\ matchType' = matchType]_vars

\* C26 witness: the request triggered with rice and lentil selected and mode
\* "all" is pending with exactly that payload, while the selection has been
\* emptied and the mode changed since.
C26_Witness ==
    /\ recMounted
    /\ selected = << >> /\ matchType = "some"
    /\ \E k \in 1..Len(recReqs) :
          /\ recReqs[k].kind = "suggest"
          /\ recReqs[k].ingredients = << Rice, Lentil >>
          /\ recReqs[k].match = "all"

\* C27 (as amended): in the recommender only suggest() issues a request: a
\* step that changes the match mode, the selection or the search text issues
\* none, and a step that issues one changes none of them nor the results; a
\* step without network activity keeps the candidate list and keeps the
\* results, except clear(), which empties results, selection and search text
\* together; the candidate list is requested once, by the mount; and the
\* list shown is the candidates containing the search text, ignoring case.
C27_OnlySuggestIssuesRequests ==
    /\ [][(matchType' # matchType \/ selected' # selected \/ search' # search)
          => (recIssued' = recIssued /\ recReqs' = recReqs)]_vars
    /\ [][recIssued' # recIssued
          => /\ recReqs'[Len(recReqs')].kind = "suggest"
             /\ results' = results /\ options' = options]_vars
    /\ [][recReqs' = recReqs
          => /\ recIssued' = recIssued
             /\ options' = options
             /\ \/ results' = results
                \/ results' = << >> /\ selected' = << >> /\ search' = EmptyStr]_vars
    /\ [](\A k \in 1..Len(recReqs) : recReqs[k].kind = "load" => recReqs[k].id = 1)
    /\ []((options = << Rice, Lentil >> /\ search = Str1("R")) => FilteredOptions = {Rice})
    /\ [](search = EmptyStr => FilteredOptions = TokenSet(options))

\* C27 witness: one suggestion request was made and answered; since then the
\* mode was changed and the search text edited, the filtered list shows rice
\* only, and no request is pending or was issued.
C27_Witness ==
    /\ recMounted
    /\ recIssued = 2 /\ recReqs = << >>
    /\ recLast.ok /\ results # << >>
    /\ matchType = "some" /\ search = Str1("R")
    /\ FilteredOptions = {Rice}

\* C27 (as stated): a step that changes the match mode, the selection or the
\* search text issues no request and changes no results.
C27_AsStated ==
    [][(matchType' # matchType \/ selected' # selected \/ search' # search)
       => (recIssued' = recIssued /\ results' = results)]_vars

\* The step ran clearAll.
ClearStep == recEvent' = ClearAllEvent

\* C28: clear() resets the selection, the results and the search text in one
\* step: in the state it leaves all three are empty, whatever they were, and
\* it changes nothing else of the widget and issues no request.
C28_ClearResetsAllThree ==
    /\ [](recEvent = ClearAllEvent
            => (selected = << >> /\ results = << >> /\ search = EmptyStr))
    /\ [][ClearStep
          => /\ selected' = << >> /\ results' = << >> /\ search' = EmptyStr
             /\ options' = options /\ matchType' = matchType
             /\ recReqs' = recReqs /\ recIssued' = recIssued]_vars

\* C28 witness: clear() has just run with a request for rice and lentil still
\* pending, mode "some": selection, results and search text are empty.
C28_Witness ==
    /\ recMounted
    /\ recEvent = ClearAllEvent
    /\ selected = << >> /\ results = << >> /\ search = EmptyStr
    /\ matchType = "some"
    /\ \E k \in 1..Len(recReqs) : recReqs[k].ingredients = << Rice, Lentil >>

\* -------------------------------------------------------- claims: session
\* The step ran handleLogin.
LoginStep == authEvent' # authEvent /\ authEvent'.name = "handleLogin"

\* "users" holds an entry with exactly this email and this password.
HasEntry(users, email, password) ==
    \E k \in 1..Len(users) : users[k] = UserEntry(email, password)

\* C29: a login with an email and password that an entry of "users" holds
\* sets the session marker to logged-in and the active identity to that
\* email, and takes the user to the list view, which is rendered: a new
\* instance is mounted and issues its fetch. A logged-in session at the
\* address of the list view always has the list view on screen.
C29_LoginEstablishesSession ==
    /\ [][(LoginStep /\ HasEntry(lsUsers, authEvent'.email, authEvent'.password))
          => /\ lsLogin' = "true"
             /\ lsUser' = JsonUser(authEvent'.email)
             /\ lsUsers' = lsUsers
             /\ location' = [path |-> ListPath, search |-> NoSearch]
             /\ listMounted' /\ listInst' = listInst + 1
             /\ listIssued' = listIssued + 1
             /\ authError' = NoError]_vars
    /\ []((lsLogin = "true" /\ location.path = ListPath) => listMounted)

\* C29 witness: the second of two accounts has logged in with its own
\* password; the list view is on screen and its fetch is under way.
C29_Witness ==
    /\ authEvent = LoginEvent(EmailB, Str1("q"))
    /\ lsLogin = "true" /\ lsUser = JsonUser(EmailB)
    /\ Len(lsUsers) = 2
    /\ location.path = ListPath
    /\ listMounted /\ loading /\ listReqs # << >>

\* C30: a login with an email and password that no entry of "users" holds
\* (unknown email, or a known email with another password) sets the error to
\* "Invalid credentials" and leaves the session marker, the active identity,
\* "users" and the address as they were; no protected view is mounted.
C30_BadLoginChangesNothing ==
    [][(LoginStep /\ ~HasEntry(lsUsers, authEvent'.email, authEvent'.password))
       => /\ authError' = InvalidCredentials
          /\ lsLogin' = lsLogin /\ lsUser' = lsUser /\ lsUsers' = lsUsers
          /\ location' = location
          /\ ~listMounted' /\ ~detailMounted'
          /\ listIssued' = listIssued]_vars

\* C30 witness: the email of the first account was tried with the password
\* of the second one, after an earlier session of the first account: the
\* error is shown, the session is logged out and the identity is unchanged.
C30_Witness ==
    /\ authEvent = LoginEvent(EmailA, Str1("q"))
    /\ Len(lsUsers) = 2
    /\ authError = InvalidCredentials
    /\ lsLogin = "false" /\ lsUser = JsonUser(EmailA)
    /\ location.path = RootPath

\* ---------------------------------------------------- claims: registration
\* The step ran handleRegister.
RegisterStep == authEvent' # authEvent /\ authEvent'.name = "handleRegister"

\* "users" holds an entry with this email.
HasEmail(users, email) == \E k \in 1..Len(users) : users[k].email = email

\* C31: a register with an email that an entry of "users" already holds,
\* whatever the password given, sets the error to "Email already
\* registered" and leaves "users", the active identity, the session marker
\* and the address as they were.
C31_DuplicateRegisterRejected ==
    [][(RegisterStep /\ HasEmail(lsUsers, authEvent'.email))
       => /\ authError' = EmailAlreadyRegistered
          /\ lsUsers' = lsUsers /\ lsUser' = lsUser /\ lsLogin' = lsLogin
          /\ location' = location]_vars

\* C31 witness: the email of the only account was registered again with
\* another password: the error is shown on the Register page and the store
\* still holds the one entry with its first password.
C31_Witness ==
    /\ authEvent = RegisterEvent(EmailA, Str1("q"))
    /\ authError = EmailAlreadyRegistered
    /\ lsUsers = << UserEntry(EmailA, Str1("p")) >>
    /\ location.path = RegisterPath

\* C32: a register with an email that no entry of "users" holds appends
\* exactly the entry {email, password} behind the existing entries and
\* leaves the session marker as it was; for a session that is not logged in
\* no protected view is on screen after it, and a protected view comes on
\* screen for such a session only through a login.
C32_RegisterAppendsWithoutSession ==
    /\ [][(RegisterStep /\ ~HasEmail(lsUsers, authEvent'.email))
          => /\ lsUsers' = lsUsers \o << UserEntry(authEvent'.email, authEvent'.password) >>
             /\ lsLogin' = lsLogin
             /\ (lsLogin # "true"
                 => ~listMounted' /\ ~detailMounted' /\ ~IsProtectedPath(location'.path))]_vars
    /\ [][(lsLogin # "true" /\ (listMounted' \/ detailMounted'))
          => (authEvent'.name = "handleLogin" /\ lsLogin' = "true")]_vars

\* C32 witness: a second account was registered by a session that never
\* logged in: both entries are stored in order, the marker is unset and the
\* Login page is on screen.
C32_Witness ==
    /\ authEvent = RegisterEvent(EmailB, Str1("q"))
    /\ lsUsers = << UserEntry(EmailA, Str1("p")), UserEntry(EmailB, Str1("q")) >>
    /\ lsLogin = "null"
    /\ location.path = RootPath
    /\ ~listMounted /\ ~detailMounted

\* ----------------------------------------------------------- claims: logout
\* C33: after logout() the session marker and the active identity are both
\* cleared: the session is not logged in and "user" holds no email.
C33_LogoutClearsMarkerAndIdentity ==
    (authEvent = LogoutEvent) => (lsLogin # "true" /\ lsUser = NoUser)

\* --------------------------------------------------- claims: route guarding
\* The step opened an address.
OpenStep == authEvent' # authEvent /\ authEvent'.name = "open"

\* C34: a protected view (list or detail) is on screen only for a session
\* whose marker is logged-in. Opening a protected address with any other
\* marker (never logged in, or logged out) is redirected within the same
\* step: the address becomes /login, where the Login page is shown, no
\* protected view is mounted and no request to the service is issued.
C34_ProtectedViewsNeedSession ==
    /\ []((listMounted \/ detailMounted) => lsLogin = "true")
    /\ [][(OpenStep /\ IsProtectedPath(authEvent'.path) /\ lsLogin # "true")
          => /\ location' = [path |-> LoginPath, search |-> NoSearch]
             /\ ~listMounted' /\ ~recMounted' /\ ~detailMounted'
             /\ listIssued' = listIssued /\ recIssued' = recIssued
             /\ detailIssued' = detailIssued
             /\ lsLogin' = lsLogin]_vars

\* C34 witness: after a session of the first account was logged out, the
\* address of a detail view was opened: the browser is at /login with the
\* Login page, nothing protected is mounted.
C34_Witness ==
    /\ authEvent = OpenEvent(DetailPath(<< "d", " ", "1" >>))
    /\ lsLogin = "false" /\ lsUser = JsonUser(EmailA)
    /\ location.path = LoginPath /\ LoginShown
    /\ ~listMounted /\ ~detailMounted
    /\ listIssued > 0

\* -------------------------------------------------- claims: stored identity
\* "user" holds what a handler of the program writes: { email } with a text.
WellFormedIdentity(stored) == \E email \in Emails : stored = JsonUser(email)

\* C35: when "user" is malformed or absent and a logged-in session is at
\* the address of the list view, reading it does not throw into the UI: the
\* element getName returns renders, it shows a welcome without an email,
\* and the list view is on screen.
C35_MalformedIdentityFallsBack ==
    (~WellFormedIdentity(lsUser) /\ lsLogin = "true" /\ location.path = ListPath)
    => /\ ~ReactChildThrows(GetName(lsUser).child)
       /\ GetName(lsUser).child = JsUndefined
       /\ listMounted

\* ------------------------------------------- claims: recommender ordering
\* C36: in the state clearAll() leaves, a step that triggers no suggest()
\* keeps the results empty, also when it is the completion of a request
\* issued before the clear; and once no suggestDishes call is pending, the
\* results shown are rows of the most recently triggered suggest().
C36_ResultsOfLatestSuggest ==
    /\ [][(recEvent = ClearAllEvent /\ recIssued' = recIssued) => results' = << >>]_vars
    /\ []((\A k \in 1..Len(recReqs) : recReqs[k].kind # "suggest")
          => \A k \in 1..Len(results) : results[k].req = recIssued)

\* ------------------------------------------------ claims: session identity
\* C37: the marker becomes logged-in, and the active identity of a
\* logged-in session changes, only in a successful login, which sets the
\* identity to the email it was given: whenever the marker says logged-in,
\* "user" is the email of the most recent successful login.
C37_IdentityIsLastLogin ==
    [][(lsLogin' = "true" /\ (lsLogin # "true" \/ lsUser' # lsUser))
       => /\ authEvent'.name = "handleLogin"
          /\ HasEntry(lsUsers, authEvent'.email, authEvent'.password)
          /\ lsUser' = JsonUser(authEvent'.email)]_vars

\* ------------------------------------------------------- claims: "users"
\* C38: through registrations, logins and logouts, from an empty "users" as
\* from any "users" registration built, no two entries of "users" have the
\* same email, and a step keeps every entry in its place with its password:
\* entries are only added.
C38_UsersOnlyGrowWithoutDuplicates ==
    /\ [](\A j, k \in 1..Len(lsUsers) : lsUsers[j].email = lsUsers[k].email => j = k)
    /\ [][/\ Len(lsUsers') >= Len(lsUsers)
          /\ \A k \in 1..Len(lsUsers) : lsUsers'[k] = lsUsers[k]]_vars

\* C38 witness: starting from an empty "users" (the second account comes
\* first), both accounts were registered, a register of a stored email with
\* another password was turned away, and the first account is logged in.
C38_Witness ==
    /\ lsUsers = << UserEntry(EmailB, Str1("q")), UserEntry(EmailA, Str1("p")) >>
    /\ lsLogin = "true" /\ lsUser = JsonUser(EmailA)
    /\ authEvent = RegisterEvent(EmailB, Str1("p"))
    /\ authError = EmailAlreadyRegistered

\* ------------------------------------------------------ claims: detail view
\* C39: a dish displayed on the detail view is the dish of the current
\* route id, also after the id changed while the view stayed mounted and
\* after a response for an earlier id arrived late.
C39_DishShownIsOfCurrentId ==
    (detailMounted /\ dish.present) => dish.id = detailId

\* The view shows "Loading dish details...".
DetailLoading == detailMounted /\ ~dish.present

\* No fetchDishById call of the mounted instance for the current id is
\* pending: the one its effect issued has settled.
CurrentDetailSettled ==
    /\ detailMounted /\ Truthy(detailId)
    /\ \A k \in 1..Len(detailReqs) :
          ~(detailReqs[k].inst = detailInst /\ detailReqs[k].dishId = detailId)

\* C40: once the request for the current id has settled, with a response or
\* with an error, the detail view has left the loading state. (The dish is
\* set by the settlement itself or not at all, so a view still loading then
\* stays loading for as long as the id stays.)
C40_SettledLeavesLoading ==
    CurrentDetailSettled => ~DetailLoading

====
